---- MODULE Spec2Model ----
(***************************************************************************)
(* Krama workflow engine: the orchestration loop of WorkflowExecutor       *)
(* (src/src/workflow/WorkflowExecutor.ts), the per-step policy of          *)
(* StepExecutor (src/src/nodes/code.v1.node.ts, second half) and the graph *)
(* model WorkflowDAG (src/src/toposort.ts).                                *)
(*                                                                         *)
(* Step ids are 1..NumSteps, in declaration order.  The workflow code runs *)
(* on one thread: a signal handler runs only while the workflow is blocked *)
(* on an await that suspended (an activity in flight, a signal wait) or    *)
(* when the handlers are registered (buffered signals).                    *)
(***************************************************************************)
EXTENDS Integers, Sequences, FiniteSets, TLC

NumSteps == 3
NumPayloads == 2
MaxSignals == 3
MaxNumber == 10
MaxAttempts == 3
MaxCalls == 3
MaxTimeout == 5

Steps == 1..NumSteps
Payloads == 1..NumPayloads
StepTypes == {"activity", "code", "signal"}

VARIABLES
  dependsOn,       \* StepDefinition.dependsOn of every declared step
  pc,              \* position of runWorkflow / execute()
  order,           \* executionOrder of execute()
  idx,             \* position of the for-of loop in executionOrder
  results,         \* WorkflowExecutor.results
  contextResults,  \* WorkflowExecutor.context.results
  signalResults,   \* WorkflowExecutor.signalResults
  isCancelled,     \* WorkflowExecutor.isCancelled
  inflight,        \* steps dispatched whose promise has not settled
  saveCount,       \* number of saveResult calls made for each id
  condEvaluated,   \* ids for which checkCondition was called
  inputRendered,   \* ids whose input was handed to renderValue
  dispatched,      \* ids for which a handler, script or signal wait started
  raised,          \* the message of the exception each step's try block caught
  conditionFalse,  \* ids whose condition was evaluated and came out false
  signalLog,       \* the signals received, in order (runs of SpecSignals)
  argument,        \* the arguments of the utility function under check
  returned,        \* the value that function returned
  retryLoop,       \* the retry loop of the legacy runWorkflow, for one step
  nodeRegistry,    \* nodes/index.ts: name -> major version -> node
  codeExecution    \* one call of codeNode.execute: the script, the timer, the race

\* the call of a utility function, used by the function specifications only
pureCall == <<argument, returned, retryLoop, nodeRegistry, codeExecution>>

vars == <<dependsOn, pc, order, idx, results, contextResults, signalResults,
          isCancelled, inflight, saveCount, condEvaluated, inputRendered,
          dispatched, raised, conditionFalse, signalLog, pureCall>>

(***************************************************************************)
(* Values                                                                  *)
(***************************************************************************)
Undefined == [kind |-> "undefined", v |-> 0]
PayloadValue(p) == [kind |-> "payload", v |-> p]
HandlerValue(stepId) == [kind |-> "handler", v |-> stepId]

NoError == <<"undefined", "", 0>>
DependencyReason(depStatus, depId) == <<"Skipped due to dependency", depStatus, depId>>
\* `Skipped due to unmet condition: ${step.when}`: the text of the `when`
\* of step stepId is stood for by the id of the step that declares it
ConditionReason(stepId) == <<"Skipped due to unmet condition", "step.when", stepId>>
CancelledReason ==
  <<"Skipped because workflow was cancelled before signal was received", "", 0>>
ThrownMessage(what) == <<what, "", 0>>

(***************************************************************************)
(* WorkflowDAG over the dependency-graph library                           *)
(***************************************************************************)
RECURSIVE SortedSeq(_)
SortedSeq(S) ==
  IF S = {} THEN <<>>
  ELSE LET m == CHOOSE x \in S : \A y \in S : x <= y
       IN <<m>> \o SortedSeq(S \ {m})

Range(seq) == {seq[i] : i \in 1..Len(seq)}

\* outgoingEdges[id]: the targets of addDependency(id, dep), in call order
outgoingEdges(id) == SortedSeq(dependsOn[id])

\* incomingEdges[id]: the steps that declare id in dependsOn
incomingEdges(id) == {t \in Steps : id \in dependsOn[t]}

\* the steps reachable from S along the dependsOn edges of deps
RECURSIVE ReachableIn(_, _)
ReachableIn(deps, S) ==
  LET more == S \cup UNION {deps[x] : x \in S}
  IN IF more = S THEN S ELSE ReachableIn(deps, more)

\* validateWorkflowSteps: visit() throws 'Cycle detected' on a back edge
CycleDetected(deps) == \E s \in Steps : s \in ReachableIn(deps, deps[s])

\* the cycle check overallOrder() runs before it orders the nodes
hasCycle == CycleDetected(dependsOn)

\* createDFS: depth-first, a node is pushed after all of its edges
RECURSIVE DFS(_, _)
RECURSIVE DFSEdges(_, _, _)
DFS(node, result) ==
  IF node \in Range(result) THEN result
  ELSE Append(DFSEdges(outgoingEdges(node), 1, result), node)
DFSEdges(edges, i, result) ==
  IF i > Len(edges) THEN result
  ELSE DFSEdges(edges, i + 1, DFS(edges[i], result))

RECURSIVE DFSFrom(_, _, _)
DFSFrom(starts, i, result) ==
  IF i > Len(starts) THEN result
  ELSE DFSFrom(starts, i + 1, DFS(starts[i], result))

\* faulty variant: the steps in declaration order, dependencies ignored
declarationOrder == SortedSeq(Steps)

\* graph.overallOrder(): DFS from every node nothing depends on
\* faulty variant: the starting points are taken last declared first
lastDeclaredFirst ==
  LET starts == SortedSeq({s \in Steps : incomingEdges(s) = {}})
  IN DFSFrom([i \in 1..Len(starts) |-> starts[Len(starts) + 1 - i]], 1, <<>>)

getExecutionOrder ==
  DFSFrom(SortedSeq({s \in Steps : incomingEdges(s) = {}}), 1, <<>>)

\* graph.dependenciesOf(id): the DFS result from id, without id itself
\* faulty variant: only the declared (direct) dependencies are returned
directDependencies(stepId) == outgoingEdges(stepId)

getDependencies(stepId) ==
  LET r == DFS(stepId, <<>>) IN SubSeq(r, 1, Len(r) - 1)

\* graph.hasNode(stepId)
hasNode(stepId) == stepId \in Steps

\* WorkflowDAG.getDependencies as a Set: empty for an id without a node
dependenciesSet(stepId) ==
  IF ~hasNode(stepId) THEN {} ELSE Range(getDependencies(stepId))

\* createDFS over incomingEdges: depth-first along the dependents
RECURSIVE DFSIncoming(_, _)
RECURSIVE DFSIncomingEdges(_, _, _)
DFSIncoming(node, result) ==
  IF node \in Range(result) THEN result
  ELSE Append(DFSIncomingEdges(SortedSeq(incomingEdges(node)), 1, result), node)
DFSIncomingEdges(edges, i, result) ==
  IF i > Len(edges) THEN result
  ELSE DFSIncomingEdges(edges, i + 1, DFSIncoming(edges[i], result))

\* graph.dependantsOf(stepId): the walk's result without the node itself
dependantsOf(stepId) ==
  LET r == DFSIncoming(stepId, <<>>) IN SubSeq(r, 1, Len(r) - 1)

\* faulty variant: only the steps that declare the id are returned
directDependents(stepId) ==
  IF ~hasNode(stepId) THEN {} ELSE incomingEdges(stepId)

\* WorkflowDAG.getDependents: empty for an id without a node
getDependents(stepId) ==
  IF ~hasNode(stepId) THEN {} ELSE Range(dependantsOf(stepId))

(***************************************************************************)
(* StepExecutor and WorkflowExecutor: the pieces of executeStep            *)
(***************************************************************************)
\* results[depId]?.status
StatusOf(res, depId) ==
  IF depId \in DOMAIN res THEN res[depId].status ELSE "undefined"

\* faulty variant: a skipped dependency is not looked at
IsFailed(res, depId) == StatusOf(res, depId) = "failed"

IsFailedOrSkipped(res, depId) == StatusOf(res, depId) \in {"failed", "skipped"}

\* faulty variant: any failed or skipped result so far skips the step
checkEveryResult(dependencies, res) ==
  LET bad == {d \in DOMAIN res : res[d].status \in {"failed", "skipped"}}
  IN IF bad = {} THEN [shouldSkip |-> FALSE, reason |-> NoError]
     ELSE LET first == CHOOSE d \in bad : \A e \in bad : d <= e
          IN [shouldSkip |-> TRUE,
              reason |-> DependencyReason(res[first].status, first)]

\* Array.from(dependencies).find(...): the first failed or skipped dependency
checkDependencies(dependencies, res) ==
  LET hits == {i \in 1..Len(dependencies) : IsFailedOrSkipped(res, dependencies[i])}
  IN IF hits = {} THEN [shouldSkip |-> FALSE, reason |-> NoError]
     ELSE LET first == dependencies[CHOOSE i \in hits : \A j \in hits : i <= j]
          IN [shouldSkip |-> TRUE,
              reason |-> DependencyReason(StatusOf(res, first), first)]

\* faulty variant: the outcome of the condition is not acted on
conditionIgnored(stepId, when) == [shouldSkip |-> FALSE, reason |-> NoError]

\* when is "none" (`!step.when`: no condition or an empty one), "true" /
\* "false" (what evaluateCondition returns on the current template context)
\* or "throws" (the render throws)
checkCondition(stepId, when) ==
  IF when = "false" THEN [shouldSkip |-> TRUE, reason |-> ConditionReason(stepId)]
  ELSE [shouldSkip |-> FALSE, reason |-> NoError]

\* faulty variant: only completed steps are exposed to the templates
contextOfCompleted(stepResults) ==
  [id \in {x \in DOMAIN stepResults : stepResults[x].status = "completed"} |->
     [result |-> stepResults[id].output]]

\* buildTemplateContext(inputs, results).step: { [id]: { result: output } }
buildTemplateContext(stepResults) ==
  [id \in DOMAIN stepResults |-> [result |-> stepResults[id].output]]

\* const stepResult = { id, status: 'completed', attempt: 0 }
newStepResult(stepId) ==
  [id |-> stepId, status |-> "completed", output |-> Undefined,
   error |-> NoError, attempt |-> 0]

skipStep(stepResult, reason) ==
  [stepResult EXCEPT !.status = "skipped", !.error = reason]

\* faulty variant: the catch block stores the message, the status stays
catchBlockKeepsStatus(stepResult, message) ==
  [result |-> [stepResult EXCEPT !.error = message], rethrown |-> FALSE]

\* faulty variant: the catch block records the failure and throws it again
catchBlockRethrows(stepResult, message) ==
  [result |-> [stepResult EXCEPT !.status = "failed", !.error = message],
   rethrown |-> TRUE]

\* catch (error) { status = 'failed'; error = message }: nothing is rethrown
catchBlock(stepResult, message) ==
  [result |-> [stepResult EXCEPT !.status = "failed", !.error = message],
   rethrown |-> FALSE]

\* faulty variant: the map is replaced by one holding the new entry only
saveResultOnly(res, stepId, stepResult) ==
  [x \in {stepId} |-> stepResult]

\* this.results[stepId] = stepResult (and the same for context.results)
saveResult(res, stepId, stepResult) ==
  [x \in DOMAIN res \cup {stepId} |-> IF x = stepId THEN stepResult ELSE res[x]]

\* faulty variant: the wait never ends in a skip
neverSkipsSignal(stepId, stepResult, cancelled, signals) ==
  [stepResult EXCEPT !.output =
     IF stepId \in DOMAIN signals THEN PayloadValue(signals[stepId])
     ELSE Undefined]

\* faulty variant: the flag decides, whether or not a payload is held
flagDecides(stepId, stepResult, cancelled, signals) ==
  IF cancelled
  THEN [stepResult EXCEPT !.status = "skipped", !.error = CancelledReason]
  ELSE [stepResult EXCEPT !.output =
          IF stepId \in DOMAIN signals THEN PayloadValue(signals[stepId])
          ELSE Undefined]

\* the body of executeSignalStep after the condition() promise resolved
executeSignalStep(stepId, stepResult, cancelled, signals) ==
  IF cancelled /\ stepId \notin DOMAIN signals
  THEN [stepResult EXCEPT !.status = "skipped", !.error = CancelledReason]
  ELSE [stepResult EXCEPT !.output =
          IF stepId \in DOMAIN signals THEN PayloadValue(signals[stepId])
          ELSE Undefined]

\* faulty variant: a cancel that arrived in flight discards the invocation
awaitInterrupted(stepResult, stepId, settled, cancelled) ==
  IF cancelled
  THEN [result |-> [stepResult EXCEPT !.status = "skipped", !.error = CancelledReason],
        rethrown |-> FALSE]
  ELSE IF settled = "resolved"
  THEN [result |-> [stepResult EXCEPT !.output = HandlerValue(stepId)],
        rethrown |-> FALSE]
  ELSE catchBlock(stepResult, ThrownMessage("activity failed"))

\* stepResult.output = await executeCodeStep(...) / executeActivityStep(...):
\* the await ends with the invocation's value or with its exception, which
\* the catch block records; isCancelled is not read
awaitInvocation(stepResult, stepId, settled, cancelled) ==
  IF settled = "resolved"
  THEN [result |-> [stepResult EXCEPT !.output = HandlerValue(stepId)],
        rethrown |-> FALSE]
  ELSE catchBlock(stepResult, ThrownMessage("activity failed"))

\* faulty variant: the loop does not look at the flag
loopNeverBreaks(cancelled) == FALSE

\* if (this.isCancelled) break
loopBreaks(cancelled) == cancelled

\* faulty variant: the loop ends one id early
exhaustedEarly(i, executionOrder) == i >= Len(executionOrder)

\* for (const stepId of executionOrder): no id is left
exhausted(i, executionOrder) == i > Len(executionOrder)

\* faulty variant: the loop steps over an id
skipIndex(i) == i + 2

\* the for-of loop moves to the next id of executionOrder
\* faulty variant: the loop takes up the same step again
staysAtIndex(i) == i

nextIndex(i) == i + 1

\* faulty variant: executeStep is not awaited, the loop goes on at once
noAwait(i) == [pc |-> "loop", idx |-> i + 1]

\* `await this.executeStep(stepId)` on a promise that is still pending: the
\* loop stays at position i until the step settles
awaitExecuteStep(i) == [pc |-> "await", idx |-> i]

\* A signal handler runs only while the workflow function is blocked.
SignalsDeliverable == pc \in {"created", "await"}

(***************************************************************************)
(* executeStep up to its first await that suspends.  The fields of the     *)
(* step definition and the outcome of the template renders are inputs.     *)
(***************************************************************************)
Outcome(suspend, result, saves, cond, rendered, started, message, rethrown) ==
  [suspend |-> suspend, result |-> result, saves |-> saves, cond |-> cond,
   rendered |-> rendered, started |-> started, message |-> message,
   rethrown |-> rethrown]

\* faulty variant: the handler is invoked before the step definition is checked
invokesBeforeThrowing(stepId, type, when, render, call) ==
  LET stepResult == newStepResult(stepId)
      depCheck == checkDependencies(getDependencies(stepId), contextResults)
      conditionCheck == checkCondition(stepId, when)
  IN
  IF depCheck.shouldSkip THEN
    \* skipStep, saveResult, return; then saveResult again in finally
    Outcome(FALSE, skipStep(stepResult, depCheck.reason), 2,
            FALSE, FALSE, FALSE, NoError, FALSE)
  ELSE IF when = "throws" THEN
    LET c == catchBlock(stepResult, ThrownMessage("condition render failed"))
    IN Outcome(FALSE, c.result, 1, TRUE, FALSE, FALSE,
               ThrownMessage("condition render failed"), c.rethrown)
  ELSE IF conditionCheck.shouldSkip THEN
    Outcome(FALSE, skipStep(stepResult, conditionCheck.reason), 2,
            TRUE, FALSE, FALSE, NoError, FALSE)
  ELSE IF render = "throws" THEN
    LET c == catchBlock(stepResult, ThrownMessage("input render failed"))
    IN Outcome(FALSE, c.result, 1, TRUE, TRUE, FALSE,
               ThrownMessage("input render failed"), c.rethrown)
  ELSE IF type = "signal" THEN
    IF stepId \in DOMAIN signalResults THEN
      \* condition() is already true: the step goes on without suspending
      Outcome(FALSE, executeSignalStep(stepId, stepResult, isCancelled, signalResults),
              1, TRUE, TRUE, TRUE, NoError, FALSE)
    ELSE
      Outcome(TRUE, stepResult, 0, TRUE, TRUE, TRUE, NoError, FALSE)
  ELSE IF call = "throws" THEN
    \* missing code / activity name, or parseDurationToMs throws in
    \* createActivityProxy: nothing was handed to the substrate
    LET c == catchBlock(stepResult, ThrownMessage("dispatch failed"))
    IN Outcome(FALSE, c.result, 1, TRUE, TRUE, TRUE,
               ThrownMessage("dispatch failed"), c.rethrown)
  ELSE
    Outcome(TRUE, stepResult, 0, TRUE, TRUE, TRUE, NoError, FALSE)

\* faulty variant: a signal step waits before its checks are made
signalWaitsBeforeChecks(stepId, type, when, render, call) ==
  LET stepResult == newStepResult(stepId)
      depCheck == checkDependencies(getDependencies(stepId), contextResults)
      conditionCheck == checkCondition(stepId, when)
  IN
  IF type = "signal" /\ stepId \notin DOMAIN signalResults THEN
    Outcome(TRUE, stepResult, 0, FALSE, FALSE, TRUE, NoError, FALSE)
  ELSE IF depCheck.shouldSkip THEN
    \* skipStep, saveResult, return; then saveResult again in finally
    Outcome(FALSE, skipStep(stepResult, depCheck.reason), 2,
            FALSE, FALSE, FALSE, NoError, FALSE)
  ELSE IF when = "throws" THEN
    LET c == catchBlock(stepResult, ThrownMessage("condition render failed"))
    IN Outcome(FALSE, c.result, 1, TRUE, FALSE, FALSE,
               ThrownMessage("condition render failed"), c.rethrown)
  ELSE IF conditionCheck.shouldSkip THEN
    Outcome(FALSE, skipStep(stepResult, conditionCheck.reason), 2,
            TRUE, FALSE, FALSE, NoError, FALSE)
  ELSE IF render = "throws" THEN
    LET c == catchBlock(stepResult, ThrownMessage("input render failed"))
    IN Outcome(FALSE, c.result, 1, TRUE, TRUE, FALSE,
               ThrownMessage("input render failed"), c.rethrown)
  ELSE IF type = "signal" THEN
    IF stepId \in DOMAIN signalResults THEN
      \* condition() is already true: the step goes on without suspending
      Outcome(FALSE, executeSignalStep(stepId, stepResult, isCancelled, signalResults),
              1, TRUE, TRUE, TRUE, NoError, FALSE)
    ELSE
      Outcome(TRUE, stepResult, 0, TRUE, TRUE, TRUE, NoError, FALSE)
  ELSE IF call = "throws" THEN
    \* missing code / activity name, or parseDurationToMs throws in
    \* createActivityProxy: nothing was handed to the substrate
    LET c == catchBlock(stepResult, ThrownMessage("dispatch failed"))
    IN Outcome(FALSE, c.result, 1, TRUE, TRUE, FALSE,
               ThrownMessage("dispatch failed"), c.rethrown)
  ELSE
    Outcome(TRUE, stepResult, 0, TRUE, TRUE, TRUE, NoError, FALSE)

executeStepSync(stepId, type, when, render, call) ==
  LET stepResult == newStepResult(stepId)
      depCheck == checkDependencies(getDependencies(stepId), contextResults)
      conditionCheck == checkCondition(stepId, when)
  IN
  IF depCheck.shouldSkip THEN
    \* skipStep, saveResult, return; then saveResult again in finally
    Outcome(FALSE, skipStep(stepResult, depCheck.reason), 2,
            FALSE, FALSE, FALSE, NoError, FALSE)
  ELSE IF when = "throws" THEN
    LET c == catchBlock(stepResult, ThrownMessage("condition render failed"))
    IN Outcome(FALSE, c.result, 1, TRUE, FALSE, FALSE,
               ThrownMessage("condition render failed"), c.rethrown)
  ELSE IF conditionCheck.shouldSkip THEN
    Outcome(FALSE, skipStep(stepResult, conditionCheck.reason), 2,
            TRUE, FALSE, FALSE, NoError, FALSE)
  ELSE IF render = "throws" THEN
    LET c == catchBlock(stepResult, ThrownMessage("input render failed"))
    IN Outcome(FALSE, c.result, 1, TRUE, TRUE, FALSE,
               ThrownMessage("input render failed"), c.rethrown)
  ELSE IF type = "signal" THEN
    IF stepId \in DOMAIN signalResults THEN
      \* condition() is already true: the step goes on without suspending
      Outcome(FALSE, executeSignalStep(stepId, stepResult, isCancelled, signalResults),
              1, TRUE, TRUE, TRUE, NoError, FALSE)
    ELSE
      Outcome(TRUE, stepResult, 0, TRUE, TRUE, TRUE, NoError, FALSE)
  ELSE IF call = "throws" THEN
    \* missing code / activity name, or parseDurationToMs throws in
    \* createActivityProxy: nothing was handed to the substrate
    LET c == catchBlock(stepResult, ThrownMessage("dispatch failed"))
    IN Outcome(FALSE, c.result, 1, TRUE, TRUE, FALSE,
               ThrownMessage("dispatch failed"), c.rethrown)
  ELSE
    Outcome(TRUE, stepResult, 0, TRUE, TRUE, TRUE, NoError, FALSE)

(***************************************************************************)
(* Actions                                                                 *)
(***************************************************************************)
\* A run starts from a definition the loader accepted: every dependsOn id
\* is declared and validateWorkflowSteps found no cycle.
FieldInitializers ==
  /\ order = <<>>
  /\ idx = 1
  /\ results = <<>>
  /\ contextResults = <<>>
  /\ signalResults = <<>>
  /\ isCancelled = FALSE
  /\ inflight = {}
  /\ saveCount = [s \in Steps |-> 0]
  /\ condEvaluated = {}
  /\ inputRendered = {}
  /\ dispatched = {}
  /\ raised = <<>>
  /\ conditionFalse = {}
  /\ signalLog = <<>>

Constructed ==
  /\ pc = "created"
  /\ FieldInitializers

\* no utility function is under check
NoCall ==
  /\ argument = <<>>
  /\ returned = <<>>
  /\ retryLoop = <<>>
  /\ nodeRegistry = <<>>
  /\ codeExecution = <<>>

Init ==
  /\ dependsOn \in {deps \in [Steps -> SUBSET Steps] : ~CycleDetected(deps)}
  /\ Constructed
  /\ NoCall

\* setHandler(cancelSignal, ...): this.isCancelled = true
cancelSignal ==
  /\ SignalsDeliverable
  /\ isCancelled' = TRUE
  /\ UNCHANGED <<dependsOn, pc, order, idx, results, contextResults,
                 signalResults, inflight, saveCount, condEvaluated,
                 inputRendered, dispatched, raised, conditionFalse, pureCall>>

Cancel ==
  /\ cancelSignal
  /\ UNCHANGED signalLog

\* faulty variant: the handler completes the step itself
stepSignalWritesResult(stepId, payload) ==
  /\ SignalsDeliverable
  /\ signalResults' =
       [x \in DOMAIN signalResults \cup {stepId} |->
          IF x = stepId THEN payload ELSE signalResults[x]]
  /\ results' = saveResult(results, stepId,
                  [newStepResult(stepId) EXCEPT !.output = PayloadValue(payload)])
  /\ UNCHANGED <<dependsOn, pc, order, idx, contextResults,
                 isCancelled, inflight, saveCount, condEvaluated,
                 inputRendered, dispatched, raised, conditionFalse, pureCall>>

\* setHandler(stepSignal, ...): this.signalResults[stepId] = payload
stepSignal(stepId, payload) ==
  /\ SignalsDeliverable
  /\ signalResults' =
       [x \in DOMAIN signalResults \cup {stepId} |->
          IF x = stepId THEN payload ELSE signalResults[x]]
  /\ UNCHANGED <<dependsOn, pc, order, idx, results, contextResults,
                 isCancelled, inflight, saveCount, condEvaluated,
                 inputRendered, dispatched, raised, conditionFalse, pureCall>>

Deliver ==
  /\ \E stepId \in Steps, payload \in Payloads : stepSignal(stepId, payload)
  /\ UNCHANGED signalLog

\* execute(): const executionOrder = this.dag.getExecutionOrder()
Execute ==
  /\ pc = "created"
  /\ IF hasCycle
     THEN /\ pc' = "graphError"
          /\ UNCHANGED order
     ELSE /\ pc' = "loop"
          /\ order' = getExecutionOrder
  /\ UNCHANGED <<dependsOn, idx, results, contextResults, signalResults,
                 isCancelled, inflight, saveCount, condEvaluated,
                 inputRendered, dispatched, raised, conditionFalse,
                 signalLog, pureCall>>

\* one iteration of the loop, up to the step's result or its suspension
ExecuteStep ==
  /\ pc = "loop"
  /\ ~exhausted(idx, order)
  /\ ~loopBreaks(isCancelled)
  /\ \E type \in StepTypes, when \in {"none", "true", "false", "throws"},
        render \in {"ok", "throws"}, call \in {"ok", "throws"} :
       LET stepId == order[idx]
           o == executeStepSync(stepId, type, when, render, call)
       IN /\ condEvaluated' = IF o.cond THEN condEvaluated \cup {stepId} ELSE condEvaluated
          /\ conditionFalse' = IF o.cond /\ when = "false"
                               THEN conditionFalse \cup {stepId} ELSE conditionFalse
          /\ inputRendered' = IF o.rendered THEN inputRendered \cup {stepId} ELSE inputRendered
          /\ dispatched' = IF o.started THEN dispatched \cup {stepId} ELSE dispatched
          /\ raised' = IF o.message # NoError
                       THEN [x \in DOMAIN raised \cup {stepId} |->
                               IF x = stepId THEN o.message ELSE raised[x]]
                       ELSE raised
          /\ IF o.suspend
             THEN /\ inflight' = inflight \cup {[id |-> stepId, type |-> type]}
                  /\ pc' = awaitExecuteStep(idx).pc
                  /\ idx' = awaitExecuteStep(idx).idx
                  /\ UNCHANGED <<results, contextResults, saveCount>>
             ELSE /\ results' = saveResult(results, stepId, o.result)
                  /\ contextResults' = saveResult(contextResults, stepId, o.result)
                  /\ saveCount' = [saveCount EXCEPT ![stepId] = @ + o.saves]
                  /\ pc' = IF o.rethrown THEN "rejected" ELSE "loop"
                  /\ idx' = nextIndex(idx)
                  /\ UNCHANGED inflight
  /\ UNCHANGED <<dependsOn, order, signalResults, isCancelled, signalLog,
                 pureCall>>

\* the substrate settles the invocation of an activity or code step
Settle ==
  /\ \E f \in inflight, settled \in {"resolved", "rejected"} :
       /\ f.type # "signal"
       /\ LET stepResult == newStepResult(f.id)
              c == awaitInvocation(stepResult, f.id, settled, isCancelled)
          IN /\ results' = saveResult(results, f.id, c.result)
             /\ contextResults' = saveResult(contextResults, f.id, c.result)
             /\ saveCount' = [saveCount EXCEPT ![f.id] = @ + 1]
             /\ raised' = IF settled = "rejected"
                          THEN [x \in DOMAIN raised \cup {f.id} |->
                                  IF x = f.id THEN ThrownMessage("activity failed")
                                  ELSE raised[x]]
                          ELSE raised
             /\ pc' = IF c.rethrown THEN "rejected" ELSE "loop"
             /\ inflight' = inflight \ {f}
  /\ idx' = nextIndex(idx)
  /\ UNCHANGED <<dependsOn, order, signalResults, isCancelled, condEvaluated,
                 inputRendered, dispatched, conditionFalse, signalLog,
                 pureCall>>

\* condition(() => isCancelled || stepId in signalResults) unblocks
Wake ==
  /\ \E f \in inflight :
       /\ f.type = "signal"
       /\ isCancelled \/ f.id \in DOMAIN signalResults
       /\ LET r == executeSignalStep(f.id, newStepResult(f.id), isCancelled, signalResults)
          IN /\ results' = saveResult(results, f.id, r)
             /\ contextResults' = saveResult(contextResults, f.id, r)
             /\ saveCount' = [saveCount EXCEPT ![f.id] = @ + 1]
             /\ inflight' = inflight \ {f}
  /\ pc' = "loop"
  /\ idx' = nextIndex(idx)
  /\ UNCHANGED <<dependsOn, order, signalResults, isCancelled, condEvaluated,
                 inputRendered, dispatched, raised, conditionFalse,
                 signalLog, pureCall>>

\* if (this.isCancelled) break; ... return this.results
Break ==
  /\ pc = "loop"
  /\ ~exhausted(idx, order)
  /\ loopBreaks(isCancelled)
  /\ pc' = "cancelled"
  /\ UNCHANGED <<dependsOn, order, idx, results, contextResults, signalResults,
                 isCancelled, inflight, saveCount, condEvaluated,
                 inputRendered, dispatched, raised, conditionFalse,
                 signalLog, pureCall>>

\* executionOrder is exhausted: return this.results
Return ==
  /\ pc = "loop"
  /\ exhausted(idx, order)
  /\ pc' = "completed"
  /\ UNCHANGED <<dependsOn, order, idx, results, contextResults, signalResults,
                 isCancelled, inflight, saveCount, condEvaluated,
                 inputRendered, dispatched, raised, conditionFalse,
                 signalLog, pureCall>>

Next ==
  \/ Cancel
  \/ Deliver
  \/ Execute
  \/ ExecuteStep
  \/ Settle
  \/ Wake
  \/ Break
  \/ Return

Spec == Init /\ [][Next]_vars

(***************************************************************************)
(* The same run with the signal traffic recorded: which payload came first *)
(* for an id, what was delivered before the cancel, and which waits the    *)
(* cancel found without a payload.  A run takes at most MaxSignals signals.*)
(***************************************************************************)
\* ids of the signal steps blocked in condition()
Waiting == {f.id : f \in {g \in inflight : g.type = "signal"}}

CancelRecorded ==
  /\ Len(signalLog) < MaxSignals
  /\ cancelSignal
  /\ signalLog' = Append(signalLog,
       [sig |-> "cancel", stepId |-> 0, payload |-> 0,
        waiting |-> Waiting, recorded |-> DOMAIN results])

DeliverRecorded ==
  /\ Len(signalLog) < MaxSignals
  /\ \E stepId \in Steps, payload \in Payloads :
       /\ stepSignal(stepId, payload)
       /\ signalLog' = Append(signalLog,
            [sig |-> "deliver", stepId |-> stepId, payload |-> payload,
             waiting |-> Waiting, recorded |-> DOMAIN results])

\* The signal handlers and the signal wait do not read the graph: these runs
\* take the definition with no dependencies and the chain 1 <- 2 <- ...
InitSignals ==
  /\ dependsOn \in {[s \in Steps |-> {}], [s \in Steps |-> {s - 1} \cap Steps]}
  /\ Constructed
  /\ NoCall

NextSignals ==
  \/ CancelRecorded
  \/ DeliverRecorded
  \/ Execute
  \/ ExecuteStep
  \/ Settle
  \/ Wake
  \/ Break
  \/ Return

SpecSignals == InitSignals /\ [][NextSignals]_vars

(***************************************************************************)
(* The run from `new WorkflowExecutor(definition)` on: the definition is a *)
(* list of NumSteps steps whose ids and dependsOn entries are any ids, so  *)
(* an id can be declared twice and a dependsOn entry can name an id that   *)
(* no step declares.  The constructor keeps the graph, not the list: the   *)
(* steps of an accepted list are known by their position from then on.     *)
(***************************************************************************)
\* an id that no step of a list declares
UndeclaredId == 0

StepLists ==
  [1..NumSteps -> [id : Steps, dependsOn : SUBSET (Steps \cup {UndeclaredId})]]

\* if (ids.has(step.id)) throw
HasDuplicateId(steps) ==
  \E i \in 1..Len(steps), j \in 1..Len(steps) : i < j /\ steps[i].id = steps[j].id

\* if (!this.graph.hasNode(depId)) throw
HasUndefinedDependency(steps) ==
  \E i \in 1..Len(steps) : \E depId \in steps[i].dependsOn :
    \A k \in 1..Len(steps) : steps[k].id # depId

\* faulty variant: a second declaration of an id replaces the first silently
duplicatesAllowed(steps) ==
  IF HasUndefinedDependency(steps) THEN "depends on undefined step" ELSE "none"

\* the error the WorkflowDAG constructor throws for a step list, if any
constructorError(steps) ==
  IF HasDuplicateId(steps) THEN "Duplicate step ID"
  ELSE IF HasUndefinedDependency(steps) THEN "depends on undefined step"
  ELSE "none"

\* the position at which id is declared
DeclaredAt(steps, id) ==
  CHOOSE i \in 1..Len(steps) :
    steps[i].id = id /\ \A j \in 1..Len(steps) : steps[j].id = id => i <= j

\* graph.addNode / graph.addDependency for every step of the list
addDependencies(steps) ==
  [s \in Steps |-> {DeclaredAt(steps, depId) : depId \in steps[s].dependsOn}]

InitDefinition ==
  /\ argument \in StepLists
  /\ returned = <<>>
  /\ dependsOn = [s \in Steps |-> {}]
  /\ pc = "new"
  /\ FieldInitializers
  /\ retryLoop = <<>>
  /\ nodeRegistry = <<>>
  /\ codeExecution = <<>>

\* new WorkflowExecutor(definition)
NewWorkflowExecutor ==
  /\ pc = "new"
  /\ IF constructorError(argument) # "none"
     THEN /\ pc' = "constructorError"
          /\ returned' = <<constructorError(argument)>>
          /\ UNCHANGED <<dependsOn, argument>>
     ELSE /\ pc' = "created"
          /\ dependsOn' = addDependencies(argument)
          /\ argument' = <<>>
          /\ UNCHANGED returned
  /\ UNCHANGED <<order, idx, results, contextResults, signalResults,
                 isCancelled, inflight, saveCount, condEvaluated,
                 inputRendered, dispatched, raised, conditionFalse, signalLog>>
  /\ UNCHANGED <<retryLoop, nodeRegistry, codeExecution>>

NextDefinition ==
  \/ NewWorkflowExecutor
  \/ Next

SpecDefinition == InitDefinition /\ [][NextDefinition]_vars

(***************************************************************************)
(* The run under the assumptions of termination: the workflow function     *)
(* goes on whenever it can, the substrate settles every invocation, and a  *)
(* signal step that waits with neither a payload for its id nor the flag   *)
(* gets one of the two.                                                    *)
(***************************************************************************)
\* a payload or a cancel arrives for a signal step that waits without either
Unblock ==
  \E f \in inflight :
    /\ f.type = "signal"
    /\ ~isCancelled
    /\ f.id \notin DOMAIN signalResults
    /\ \/ Cancel
       \/ /\ \E payload \in Payloads : stepSignal(f.id, payload)
          /\ UNCHANGED signalLog

Fairness ==
  /\ WF_vars(Execute)
  /\ WF_vars(ExecuteStep)
  /\ WF_vars(Settle)
  /\ WF_vars(Wake)
  /\ WF_vars(Break)
  /\ WF_vars(Return)
  /\ WF_vars(Unblock)

SpecTermination == InitSignals /\ [][Next]_vars /\ Fairness

(***************************************************************************)
(* The same run where a step signal can also name an id that no step       *)
(* declares: the handler takes any string as stepId.                       *)
(***************************************************************************)
DeliverAnyId ==
  /\ \E stepId \in Steps \cup {UndeclaredId}, payload \in Payloads :
       stepSignal(stepId, payload)
  /\ UNCHANGED signalLog

NextInbox ==
  \/ Cancel
  \/ DeliverAnyId
  \/ Execute
  \/ ExecuteStep
  \/ Settle
  \/ Wake
  \/ Break
  \/ Return

SpecInbox == InitSignals /\ [][NextInbox]_vars

(***************************************************************************)
(* WorkflowDAG alone: any declared step list, then getExecutionOrder().    *)
(***************************************************************************)
InitGraph ==
  /\ dependsOn \in [Steps -> SUBSET Steps]
  /\ Constructed
  /\ NoCall

NextGraph == Execute

SpecGraph == InitGraph /\ [][NextGraph]_vars

(***************************************************************************)
(* WorkflowDAG.getDependencies / getDependents called on an acyclic graph, *)
(* for an id of the graph or for an id that has no node.                   *)
(***************************************************************************)
InitDependencies ==
  /\ dependsOn \in {deps \in [Steps -> SUBSET Steps] : ~CycleDetected(deps)}
  /\ Constructed
  /\ argument \in [method : {"getDependencies", "getDependents"},
                    stepId : Steps \cup {UndeclaredId}]
  /\ returned = <<>>
  /\ retryLoop = <<>>
  /\ nodeRegistry = <<>>
  /\ codeExecution = <<>>

CallDag ==
  /\ returned = <<>>
  /\ returned' = <<IF argument.method = "getDependencies"
                   THEN dependenciesSet(argument.stepId)
                   ELSE getDependents(argument.stepId)>>
  /\ UNCHANGED <<dependsOn, pc, order, idx, results, contextResults,
                 signalResults, isCancelled, inflight, saveCount, condEvaluated,
                 inputRendered, dispatched, raised, conditionFalse, signalLog,
                 argument>>
  /\ UNCHANGED <<retryLoop, nodeRegistry, codeExecution>>

NextDependencies == CallDag

SpecDependencies == InitDependencies /\ [][NextDependencies]_vars

(***************************************************************************)
(* evaluateCondition (workflow/utils.ts).  A text is a sequence of         *)
(* characters; a condition is a sequence of characters and `{{x}}` tags;   *)
(* the template context gives x a JavaScript value.                        *)
(***************************************************************************)
Whitespace == {" ", "\t", "\n"}
Tag == "{{x}}"

\* JavaScript values: undefined, a boolean, a number, a string
JsValue(kind, bool, num, text) ==
  [kind |-> kind, bool |-> bool, num |-> num, text |-> text]
JsUndefined == JsValue("undefined", FALSE, 0, <<>>)
JsBoolean(b) == JsValue("boolean", b, 0, <<>>)
JsNumber(n) == JsValue("number", FALSE, n, <<>>)
JsString(t) == JsValue("string", FALSE, 0, t)

Digit(d) == <<"0", "1", "2", "3", "4", "5", "6", "7", "8", "9">>[d + 1]

\* String(n) of a natural number
RECURSIVE NumberToText(_)
NumberToText(n) ==
  IF n < 10 THEN <<Digit(n)>> ELSE NumberToText(n \div 10) \o <<Digit(n % 10)>>

\* what Mustache writes for a tag: nothing for undefined, String(value)
\* otherwise (no character of these texts is HTML-escaped)
ValueToText(value) ==
  CASE value.kind = "undefined" -> <<>>
    [] value.kind = "boolean" ->
         IF value.bool THEN <<"t", "r", "u", "e">> ELSE <<"f", "a", "l", "s", "e">>
    [] value.kind = "number" -> NumberToText(value.num)
    [] OTHER -> value.text

\* Mustache.render(condition, templateContext)
RECURSIVE MustacheRender(_, _)
MustacheRender(condition, x) ==
  IF condition = <<>> THEN <<>>
  ELSE (IF Head(condition) = Tag THEN ValueToText(x) ELSE <<Head(condition)>>)
       \o MustacheRender(Tail(condition), x)

\* String.prototype.trim
RECURSIVE trim(_)
trim(text) ==
  IF text = <<>> THEN <<>>
  ELSE IF Head(text) \in Whitespace THEN trim(Tail(text))
  ELSE IF text[Len(text)] \in Whitespace THEN trim(SubSeq(text, 1, Len(text) - 1))
  ELSE text

\* faulty variant: the rendered text is compared untrimmed
evaluateUntrimmed(condition, x) ==
  LET rendered == MustacheRender(condition, x)
  IN /\ rendered # <<>>
     /\ rendered # <<"f", "a", "l", "s", "e">>
     /\ rendered # <<"0">>

\* rendered !== '' && rendered !== 'false' && rendered !== '0'
evaluateCondition(condition, x) ==
  LET rendered == trim(MustacheRender(condition, x))
  IN /\ rendered # <<>>
     /\ rendered # <<"f", "a", "l", "s", "e">>
     /\ rendered # <<"0">>

\* the literal texts the conditions and the string values are taken from
Texts ==
  { <<>>, <<" ">>, <<"\t", "\n">>,
    <<"f", "a", "l", "s", "e">>, <<" ", "f", "a", "l", "s", "e", "\n">>,
    <<"F", "a", "l", "s", "e">>, <<"f", "a", "l", "s">>,
    <<"f", "a", "l", " ", "s", "e">>,
    <<"0">>, <<"0", "0">>, <<"\t", "0">>, <<"0", " ", "0">>,
    <<"t", "r", "u", "e">>, <<"1">>, <<"N", "o">> }

Conditions ==
  Texts \cup { <<Tag>>, <<" ", Tag, " ">>, <<Tag, "0">>, <<"0", Tag>>,
               <<"f", "a", "l", Tag>>, <<Tag, Tag>> }

JsValues ==
  {JsUndefined} \cup {JsBoolean(b) : b \in BOOLEAN}
    \cup {JsNumber(n) : n \in 0..MaxNumber} \cup {JsString(t) : t \in Texts}

InitCondition ==
  /\ dependsOn = [s \in Steps |-> {}]
  /\ Constructed
  /\ argument \in [condition : Conditions, x : JsValues]
  /\ returned = <<>>
  /\ retryLoop = <<>>
  /\ nodeRegistry = <<>>
  /\ codeExecution = <<>>

EvaluateCondition ==
  /\ returned = <<>>
  /\ returned' = <<evaluateCondition(argument.condition, argument.x)>>
  /\ UNCHANGED <<dependsOn, pc, order, idx, results, contextResults,
                 signalResults, isCancelled, inflight, saveCount, condEvaluated,
                 inputRendered, dispatched, raised, conditionFalse, signalLog,
                 argument>>
  /\ UNCHANGED <<retryLoop, nodeRegistry, codeExecution>>

NextCondition == EvaluateCondition

SpecCondition == InitCondition /\ [][NextCondition]_vars

(***************************************************************************)
(* StepExecutor.createActivityProxy: the options handed to proxyActivities *)
(* for a step.  An optional field is a record with a `present` flag; a     *)
(* duration text is a number and a unit.                                   *)
(***************************************************************************)
Absent == [present |-> FALSE, v |-> 0]
Present(v) == [present |-> TRUE, v |-> v]

Duration(n, unit) == [n |-> n, unit |-> unit]
OneSecond == Duration(1, "s")
OneHour == Duration(1, "hour")
FiveMinutes == Duration(5, "minutes")
AbsentDuration == [present |-> FALSE, v |-> Duration(0, "")]

\* the milliseconds of the units the ms library knows
UnitMs(unit) ==
  CASE unit \in {"s", "second", "seconds"} -> 1000
    [] unit \in {"m", "minute", "minutes"} -> 60 * 1000
    [] unit \in {"h", "hour", "hours"} -> 60 * 60 * 1000
    [] OTHER -> 0

\* parseDurationToMs: throws unless ms() returns a number
parseDurationToMs(duration) ==
  IF UnitMs(duration.unit) = 0
  THEN [threw |-> TRUE, ms |-> 0]
  ELSE [threw |-> FALSE, ms |-> duration.n * UnitMs(duration.unit)]

\* a ?? b on optional fields
OrElse(field, default) == IF field.present THEN field.v ELSE default

\* faulty variant: count is looked at before maximumAttempts
countTakesPrecedence(retry) ==
  IF retry.count.present THEN retry.count.v + 1
  ELSE OrElse(retry.maximumAttempts, 2)

\* faulty variant: count is taken as the number of attempts
retriesNotCounted(retry) ==
  OrElse(retry.maximumAttempts,
         IF retry.count.present THEN retry.count.v ELSE 2)

\* retry?.maximumAttempts ?? (retry?.count !== undefined ? count + 1 : 2)
maximumAttempts(retry) ==
  OrElse(retry.maximumAttempts,
         IF retry.count.present THEN retry.count.v + 1 ELSE 2)

createActivityProxy(step) ==
  LET startToClose == parseDurationToMs(OrElse(step.timeout, OneHour))
      initialInterval == parseDurationToMs(OrElse(step.retry.initialInterval, OneSecond))
      maximumInterval == parseDurationToMs(FiveMinutes)
  IN [threw |-> startToClose.threw \/ initialInterval.threw \/ maximumInterval.threw,
      startToCloseTimeout |-> startToClose.ms,
      retry |-> [initialInterval |-> initialInterval.ms,
                 backoffCoefficient |-> OrElse(step.retry.backoffCoefficient, 2),
                 maximumAttempts |-> maximumAttempts(step.retry),
                 maximumInterval |-> maximumInterval.ms]]

OptionalCounts == {Absent} \cup {Present(n) : n \in 0..MaxAttempts}
OptionalDurations ==
  {AbsentDuration, Present(Duration(30, "s")), Present(Duration(2, "m")),
   Present(Duration(1, "fortnight"))}

\* step.retry undefined reads as every field of it undefined
RetryFields ==
  [maximumAttempts : OptionalCounts, count : OptionalCounts,
   initialInterval : OptionalDurations,
   backoffCoefficient : {Absent, Present(1), Present(3)}]

InitRetry ==
  /\ dependsOn = [s \in Steps |-> {}]
  /\ Constructed
  /\ argument \in [retry : RetryFields, timeout : OptionalDurations]
  /\ returned = <<>>
  /\ retryLoop = <<>>
  /\ nodeRegistry = <<>>
  /\ codeExecution = <<>>

CreateActivityProxy ==
  /\ returned = <<>>
  /\ returned' = <<createActivityProxy(argument)>>
  /\ UNCHANGED <<dependsOn, pc, order, idx, results, contextResults,
                 signalResults, isCancelled, inflight, saveCount, condEvaluated,
                 inputRendered, dispatched, raised, conditionFalse, signalLog,
                 argument>>
  /\ UNCHANGED <<retryLoop, nodeRegistry, codeExecution>>

NextRetry == CreateActivityProxy

SpecRetry == InitRetry /\ [][NextRetry]_vars

(***************************************************************************)
(* The retry loop of the legacy runWorkflow (src/src/workflow.ts) for one  *)
(* activity step: every attempt invokes the handler, which resolves or     *)
(* rejects; the loop sleeps between attempts.                              *)
(***************************************************************************)
\* the helper at the end of the legacy file: s, m, h or bare milliseconds,
\* 0 for any other text
legacyParseDurationToMs(duration) ==
  CASE duration.unit = "s" -> duration.n * 1000
    [] duration.unit = "m" -> duration.n * 60 * 1000
    [] duration.unit = "h" -> duration.n * 60 * 60 * 1000
    [] duration.unit = "" -> duration.n
    [] OTHER -> 0

Smaller(a, b) == IF a <= b THEN a ELSE b

\* Math.min(initialInterval * backoffCoefficient ^ (attempt - 1), 5 minutes)
delayMs(retry, attempt) ==
  Smaller(legacyParseDurationToMs(OrElse(retry.initialInterval, OneSecond))
            * OrElse(retry.backoffCoefficient, 2) ^ (attempt - 1),
          5 * 60 * 1000)

\* the message of the error the handler throws on an attempt
AttemptError(attempt) == <<"activity failed", "attempt", attempt>>

InitLegacyRetry ==
  /\ dependsOn = [s \in Steps |-> {}]
  /\ Constructed
  /\ argument \in [retry : RetryFields]
  /\ returned = <<>>
  /\ retryLoop = [pc |-> "for", attempt |-> 1, outcomes |-> <<>>, slept |-> <<>>,
                  lastError |-> NoError, stepResult |-> newStepResult(1)]
  /\ nodeRegistry = <<>>
  /\ codeExecution = <<>>

\* one pass of the loop body: the handler is invoked
LegacyAttempt ==
  /\ retryLoop.pc = "for"
  /\ retryLoop.attempt <= maximumAttempts(argument.retry)
  /\ \E settled \in {"resolved", "rejected"} :
       LET attempt == retryLoop.attempt
           counted == [retryLoop.stepResult EXCEPT !.attempt = attempt]
           tried == [retryLoop EXCEPT !.outcomes = Append(@, settled)]
       IN retryLoop' =
            IF settled = "resolved"
            THEN [tried EXCEPT !.pc = "saved",
                               !.stepResult = [counted EXCEPT !.output = HandlerValue(1)]]
            ELSE IF attempt < maximumAttempts(argument.retry)
            THEN [tried EXCEPT !.pc = "sleep", !.stepResult = counted,
                               !.lastError = AttemptError(attempt)]
            ELSE [tried EXCEPT !.pc = "saved", !.lastError = AttemptError(attempt),
                               !.stepResult =
                                 catchBlock(counted, AttemptError(attempt)).result]
  /\ UNCHANGED <<dependsOn, pc, order, idx, results, contextResults,
                 signalResults, isCancelled, inflight, saveCount, condEvaluated,
                 inputRendered, dispatched, raised, conditionFalse, signalLog,
                 argument, returned, nodeRegistry, codeExecution>>

\* await sleep(delayMs); attempt++
LegacySleep ==
  /\ retryLoop.pc = "sleep"
  /\ retryLoop' = [retryLoop EXCEPT
       !.pc = "for", !.attempt = @ + 1,
       !.slept = Append(@, delayMs(argument.retry, retryLoop.attempt))]
  /\ UNCHANGED <<dependsOn, pc, order, idx, results, contextResults,
                 signalResults, isCancelled, inflight, saveCount, condEvaluated,
                 inputRendered, dispatched, raised, conditionFalse, signalLog,
                 argument, returned, nodeRegistry, codeExecution>>

\* attempt <= maximumAttempts is false: the loop ends without a break
LegacyLoopEnd ==
  /\ retryLoop.pc = "for"
  /\ retryLoop.attempt > maximumAttempts(argument.retry)
  /\ retryLoop' = [retryLoop EXCEPT !.pc = "saved"]
  /\ UNCHANGED <<dependsOn, pc, order, idx, results, contextResults,
                 signalResults, isCancelled, inflight, saveCount, condEvaluated,
                 inputRendered, dispatched, raised, conditionFalse, signalLog,
                 argument, returned, nodeRegistry, codeExecution>>

NextLegacyRetry ==
  \/ LegacyAttempt
  \/ LegacySleep
  \/ LegacyLoopEnd

SpecLegacyRetry == InitLegacyRetry /\ [][NextLegacyRetry]_vars

(***************************************************************************)
(* The node registry (nodes/index.ts): registerNode, getNode,              *)
(* clearRegistry and createNodeActivities.  A version text is a sequence   *)
(* of characters.  `argument` is the list of the calls made so far and     *)
(* `returned` the list of their outcomes; the node a call registers is     *)
(* told apart by its id, the position of the call.  Node names hold no     *)
(* "@v".                                                                   *)
(***************************************************************************)
NodeNames == {"http", "code"}
VersionTexts == {<<"1">>, <<"2">>, <<"1", ".", "5">>, <<"1", "0">>, <<"v", "2">>}
NodeDefinition(id, name, version) == [id |-> id, name |-> name, version |-> version]
NoNode == NodeDefinition(0, "", <<>>)

IsDigit(c) == \E d \in 0..9 : Digit(d) = c
DigitValue(c) == CHOOSE d \in 0..9 : Digit(d) = c

\* the match of /^(\d+)/
RECURSIVE LeadingDigits(_)
LeadingDigits(text) ==
  IF text = <<>> \/ ~IsDigit(Head(text)) THEN <<>>
  ELSE <<Head(text)>> \o LeadingDigits(Tail(text))

\* parseInt(digits, 10)
RECURSIVE ParseInt(_)
ParseInt(digits) ==
  IF digits = <<>> THEN 0
  ELSE ParseInt(SubSeq(digits, 1, Len(digits) - 1)) * 10
         + DigitValue(digits[Len(digits)])

parseVersion(version) ==
  LET match == LeadingDigits(version)
  IN IF match = <<>> THEN 1 ELSE ParseInt(match)

\* Math.max(...versions.keys())
MathMax(keys) == CHOOSE m \in keys : \A k \in keys : k <= m

registerOverwrites(registry, node) ==
  LET version == parseVersion(node.version)
      versions == IF node.name \in DOMAIN registry THEN registry[node.name] ELSE <<>>
      set == [v \in DOMAIN versions \cup {version} |->
                IF v = version THEN node ELSE versions[v]]
  IN [threw |-> FALSE,
      registry |-> [n \in DOMAIN registry \cup {node.name} |->
                      IF n = node.name THEN set ELSE registry[n]]]

registerNode(registry, node) ==
  LET version == parseVersion(node.version)
      versions == IF node.name \in DOMAIN registry THEN registry[node.name] ELSE <<>>
      set == [v \in DOMAIN versions \cup {version} |->
                IF v = version THEN node ELSE versions[v]]
  IN IF version \in DOMAIN versions
     THEN [threw |-> TRUE, registry |-> registry]
     ELSE [threw |-> FALSE,
           registry |-> [n \in DOMAIN registry \cup {node.name} |->
                           IF n = node.name THEN set ELSE registry[n]]]

getNodeLowest(registry, name, version) ==
  IF name \notin DOMAIN registry THEN NoNode
  ELSE LET versions == registry[name]
       IN IF version.present
          THEN IF version.v \in DOMAIN versions THEN versions[version.v] ELSE NoNode
          ELSE IF DOMAIN versions = {} THEN NoNode
          ELSE versions[CHOOSE m \in DOMAIN versions :
                          \A k \in DOMAIN versions : m <= k]

getNode(registry, name, version) ==
  IF name \notin DOMAIN registry THEN NoNode
  ELSE LET versions == registry[name]
       IN IF version.present
          THEN IF version.v \in DOMAIN versions THEN versions[version.v] ELSE NoNode
          ELSE IF DOMAIN versions = {} THEN NoNode
          ELSE versions[MathMax(DOMAIN versions)]

\* the activity `${name}@v${version}` is keyed <<name, version>>, the
\* activity `name` is keyed <<name>>; a wrapper is stood for by its node
createNodeActivities(registry) ==
  LET versioned == UNION {{<<name, version>> : version \in DOMAIN registry[name]} :
                            name \in DOMAIN registry}
      keys == versioned \cup {<<name>> : name \in {n \in DOMAIN registry :
                                                     DOMAIN registry[n] # {}}}
  IN [k \in keys |->
        IF Len(k) = 2 THEN registry[k[1]][k[2]]
        ELSE registry[k[1]][MathMax(DOMAIN registry[k[1]])]]

RegistryCall(op, name, version, wanted) ==
  [op |-> op, name |-> name, version |-> version, wanted |-> wanted]
CallOutcome(threw, node) == [threw |-> threw, node |-> node]

InitRegistry ==
  /\ Constructed
  /\ dependsOn = [s \in Steps |-> {}]
  /\ argument = <<>>
  /\ returned = <<>>
  /\ retryLoop = <<>>
  /\ nodeRegistry = <<>>
  /\ codeExecution = <<>>

RegisterNode ==
  /\ Len(argument) < MaxCalls
  /\ \E name \in NodeNames, version \in VersionTexts :
       LET node == NodeDefinition(Len(argument) + 1, name, version)
           call == registerNode(nodeRegistry, node)
       IN /\ nodeRegistry' = call.registry
          /\ argument' = Append(argument, RegistryCall("registerNode", name, version, Absent))
          /\ returned' = Append(returned, CallOutcome(call.threw, NoNode))
  /\ UNCHANGED <<dependsOn, pc, order, idx, results, contextResults,
                 signalResults, isCancelled, inflight, saveCount, condEvaluated,
                 inputRendered, dispatched, raised, conditionFalse, signalLog,
                 retryLoop, codeExecution>>

GetNode ==
  /\ Len(argument) < MaxCalls
  /\ \E name \in NodeNames,
        version \in {Absent} \cup {Present(parseVersion(t)) : t \in VersionTexts} :
       /\ argument' = Append(argument, RegistryCall("getNode", name, <<>>, version))
       /\ returned' = Append(returned,
                             CallOutcome(FALSE, getNode(nodeRegistry, name, version)))
  /\ UNCHANGED <<dependsOn, pc, order, idx, results, contextResults,
                 signalResults, isCancelled, inflight, saveCount, condEvaluated,
                 inputRendered, dispatched, raised, conditionFalse, signalLog,
                 retryLoop, nodeRegistry, codeExecution>>

ClearRegistry ==
  /\ Len(argument) < MaxCalls
  /\ nodeRegistry' = <<>>
  /\ argument' = Append(argument, RegistryCall("clearRegistry", "", <<>>, Absent))
  /\ returned' = Append(returned, CallOutcome(FALSE, NoNode))
  /\ UNCHANGED <<dependsOn, pc, order, idx, results, contextResults,
                 signalResults, isCancelled, inflight, saveCount, condEvaluated,
                 inputRendered, dispatched, raised, conditionFalse, signalLog,
                 retryLoop, codeExecution>>

NextRegistry ==
  \/ RegisterNode
  \/ GetNode
  \/ ClearRegistry

SpecRegistry == InitRegistry /\ [][NextRegistry]_vars

(***************************************************************************)
(* createActivityWrapper (nodes/index.ts): one call of the activity that   *)
(* wraps a node.  The inputs are the node (its name, whether it declares   *)
(* an inputSchema), whether the raw input passes safeParse, and what       *)
(* node.execute does when it is called.                                    *)
(***************************************************************************)
NodeErrorCode ==
  {"VALIDATION_ERROR", "EXECUTION_ERROR", "TIMEOUT_ERROR", "NETWORK_ERROR",
   "PERMISSION_ERROR"}

NodeExecutionError(nodeName, code) ==
  [name |-> "NodeExecutionError", nodeName |-> nodeName, code |-> code]
\* a thrown value that is not a NodeExecutionError: an Error, or any value
OtherThrown(name) == [name |-> name, nodeName |-> "", code |-> ""]
NothingThrown == [name |-> "", nodeName |-> "", code |-> ""]

ExecuteOutcomes ==
  {[kind |-> "resolves", error |-> NothingThrown]}
    \cup {[kind |-> "throws", error |-> NodeExecutionError(n, c)] :
            n \in NodeNames, c \in NodeErrorCode}
    \cup {[kind |-> "throws", error |-> OtherThrown(n)] : n \in {"Error", "string"}}

WrapperReturn(threw, error, executeCalled, passed) ==
  [threw |-> threw, error |-> error, executeCalled |-> executeCalled,
   passed |-> passed]

\* the try/catch around node.execute(validatedInput, fullContext)
tryExecute(node, validatedInput, execute) ==
  IF execute.kind = "resolves"
  THEN WrapperReturn(FALSE, NothingThrown, TRUE, validatedInput)
  ELSE IF execute.error.name = "NodeExecutionError"
  THEN WrapperReturn(TRUE, execute.error, TRUE, validatedInput)
  ELSE WrapperReturn(TRUE, NodeExecutionError(node.name, "EXECUTION_ERROR"),
                     TRUE, validatedInput)

wrapperWithoutValidation(node, safeParseSuccess, execute) ==
  tryExecute(node, "params.input", execute)

wrapperAlwaysExecutionError(node, safeParseSuccess, execute) ==
  IF node.inputSchema /\ ~safeParseSuccess
  THEN WrapperReturn(TRUE, NodeExecutionError(node.name, "VALIDATION_ERROR"),
                     FALSE, "")
  ELSE LET called == tryExecute(node, "params.input", execute)
       IN IF called.threw
          THEN [called EXCEPT !.error =
                  NodeExecutionError(node.name, "EXECUTION_ERROR")]
          ELSE called

createActivityWrapper(node, safeParseSuccess, execute) ==
  IF node.inputSchema /\ ~safeParseSuccess
  THEN WrapperReturn(TRUE, NodeExecutionError(node.name, "VALIDATION_ERROR"),
                     FALSE, "")
  ELSE tryExecute(node,
                  IF node.inputSchema THEN "result.data" ELSE "params.input",
                  execute)

InitWrapper ==
  /\ Constructed
  /\ dependsOn = [s \in Steps |-> {}]
  /\ argument \in [node : [name : NodeNames, inputSchema : BOOLEAN],
                   safeParseSuccess : BOOLEAN,
                   execute : ExecuteOutcomes]
  /\ returned = <<>>
  /\ retryLoop = <<>>
  /\ nodeRegistry = <<>>
  /\ codeExecution = <<>>

ActivityWrapper ==
  /\ returned = <<>>
  /\ returned' = <<createActivityWrapper(argument.node, argument.safeParseSuccess,
                                         argument.execute)>>
  /\ UNCHANGED <<dependsOn, pc, order, idx, results, contextResults,
                 signalResults, isCancelled, inflight, saveCount, condEvaluated,
                 inputRendered, dispatched, raised, conditionFalse, signalLog,
                 argument, retryLoop, nodeRegistry, codeExecution>>

NextWrapper == ActivityWrapper

SpecWrapper == InitWrapper /\ [][NextWrapper]_vars

(***************************************************************************)
(* codeNode.execute (nodes/code.v1.node.ts) called through the activity    *)
(* wrapper.  The script runs as an async function inside the vm; execute   *)
(* awaits Promise.race of the promise the script settles and of the        *)
(* promise the timeout timer rejects.  The script settling and the timer   *)
(* firing are events of the event loop and come in any order; `events`     *)
(* keeps the order they came in.                                           *)
(***************************************************************************)
\* timeouts in milliseconds
Timeouts == 1..MaxTimeout

codeNode == [name |-> "code", inputSchema |-> TRUE]

\* `Code execution timed out after ${timeout}ms`
TimedOutMessage(timeout) ==
  [prefix |-> "", text |-> "Code execution timed out after ms", timeout |-> timeout]
\* the vm's own message when the synchronous part of the script runs too long
VmTimedOutMessage(timeout) ==
  [prefix |-> "", text |-> "Script execution timed out after ms", timeout |-> timeout]
\* the message of what the script threw
ScriptMessage == [prefix |-> "", text |-> "script error", timeout |-> 0]
NoMessage == [prefix |-> "", text |-> "", timeout |-> 0]
\* `Code execution failed: ${errorMessage}`
FailedMessage(errorMessage) ==
  [errorMessage EXCEPT !.prefix = "Code execution failed: "]

lastSettledWins(race, settled) == settled

\* Promise.race: the first promise to settle settles the race
promiseRace(race, settled) == IF race = "pending" THEN settled ELSE race

\* clearTimeout(timeoutId)
clearTimeout(timer) == IF timer = "armed" THEN "cleared" ELSE timer

\* the outer catch block of execute
outerCatch(execution, errorMessage) ==
  [execution EXCEPT !.pc = "threw",
                    !.logs = Append(@, [errorMessage EXCEPT !.prefix = "[EXECUTION ERROR] "]),
                    !.message = FailedMessage(errorMessage),
                    !.outcomes = Append(@, "threw")]

InitCodeNode ==
  /\ Constructed
  /\ dependsOn = [s \in Steps |-> {}]
  /\ argument \in [timeout : Timeouts]
  /\ returned = <<>>
  /\ retryLoop = <<>>
  /\ nodeRegistry = <<>>
  /\ codeExecution = [pc |-> "called", script |-> "notStarted", timer |-> "unset",
                      race |-> "pending", events |-> <<>>, logs |-> <<>>,
                      message |-> NoMessage, outcomes |-> <<>>]

CodeNodeFrame ==
  UNCHANGED <<dependsOn, pc, order, idx, results, contextResults,
              signalResults, isCancelled, inflight, saveCount, condEvaluated,
              inputRendered, dispatched, raised, conditionFalse, signalLog,
              argument, retryLoop, nodeRegistry>>

\* new vm.Script(wrappedCode) and script.runInContext(vmContext, { timeout }):
\* the script does not compile, its synchronous part runs longer than the
\* timeout, or the call returns with the async function started and the
\* timer is set
RunInContext ==
  /\ codeExecution.pc = "called"
  /\ \/ \E errorMessage \in {ScriptMessage, VmTimedOutMessage(argument.timeout)} :
          codeExecution' = outerCatch(codeExecution, errorMessage)
     \/ codeExecution' = [codeExecution EXCEPT !.pc = "race", !.script = "pending",
                                               !.timer = "armed"]
  /\ UNCHANGED returned
  /\ CodeNodeFrame

\* the async function of the script returns (__resolve__) or throws (__reject__)
ScriptSettles ==
  /\ codeExecution.script = "pending"
  /\ \E settled \in {"resolved", "rejected"} :
       codeExecution' = [codeExecution EXCEPT
         !.script = settled,
         !.race = promiseRace(@, settled),
         !.events = Append(@, settled)]
  /\ UNCHANGED returned
  /\ CodeNodeFrame

\* the timer callback: reject(new Error(`Code execution timed out after ...`))
TimerFires ==
  /\ codeExecution.timer = "armed"
  /\ codeExecution' = [codeExecution EXCEPT
       !.timer = "fired",
       !.race = promiseRace(@, "timedOut"),
       !.events = Append(@, "timedOut")]
  /\ UNCHANGED returned
  /\ CodeNodeFrame

\* execute resumes after `await Promise.race([...])`
RaceSettled ==
  /\ codeExecution.pc = "race"
  /\ codeExecution.race # "pending"
  /\ LET cleared == [codeExecution EXCEPT !.timer = clearTimeout(@)]
     IN codeExecution' =
          IF codeExecution.race = "resolved"
          THEN [cleared EXCEPT !.pc = "returned", !.outcomes = Append(@, "returned")]
          ELSE outerCatch(cleared,
                          IF codeExecution.race = "timedOut"
                          THEN TimedOutMessage(argument.timeout)
                          ELSE ScriptMessage)
  /\ UNCHANGED returned
  /\ CodeNodeFrame

\* the wrapper resumes after `await node.execute(validatedInput, fullContext)`;
\* what execute throws is an Error
WrapperResumes ==
  /\ codeExecution.pc \in {"returned", "threw"}
  /\ returned = <<>>
  /\ returned' = <<createActivityWrapper(codeNode, TRUE,
                     IF codeExecution.pc = "returned"
                     THEN [kind |-> "resolves", error |-> NothingThrown]
                     ELSE [kind |-> "throws", error |-> OtherThrown("Error")])>>
  /\ UNCHANGED codeExecution
  /\ CodeNodeFrame

NextCodeNode ==
  \/ RunInContext
  \/ ScriptSettles
  \/ TimerFires
  \/ RaceSettled
  \/ WrapperResumes

SpecCodeNode == InitCodeNode /\ [][NextCodeNode]_vars

(***************************************************************************)
(* Properties                                                              *)
(***************************************************************************)
\* direct and transitive dependencies of s, from the declared dependsOn
TransitiveDependencies(s) == ReachableIn(dependsOn, dependsOn[s])

Terminal == {"completed", "failed", "skipped"}

HasResult(s) == s \in DOMAIN results

FailedOrSkippedDeps(s) ==
  {d \in TransitiveDependencies(s) :
     HasResult(d) /\ results[d].status \in {"failed", "skipped"}}

Independent(s, t) ==
  /\ s # t
  /\ s \notin TransitiveDependencies(t)
  /\ t \notin TransitiveDependencies(s)

InFlightIds == {f.id : f \in inflight}

\* C1: when a step is dispatched (handler invoked, script run or signal wait
\* entered), every direct and transitive dependency of it already holds a
\* recorded terminal StepResult.
C1_DependenciesTerminalAtDispatch ==
  \A s \in dispatched : \A d \in TransitiveDependencies(s) :
    HasResult(d) /\ results[d].status \in Terminal

\* a step with a dependency that is transitive only is in flight
C1_Witness ==
  \E f \in inflight : TransitiveDependencies(f.id) \ dependsOn[f.id] # {}

\* C2: a step with a failed or skipped direct or transitive dependency is
\* recorded skipped and nothing else runs for it: checkCondition is not
\* called, its input is not rendered, nothing is dispatched.
C2_DependencySkip ==
  \A s \in Steps :
    FailedOrSkippedDeps(s) # {} =>
      /\ s \notin condEvaluated
      /\ s \notin inputRendered
      /\ s \notin dispatched
      /\ HasResult(s) => results[s].status = "skipped"

\* a step is skipped because a dependency that is transitive only was skipped
C2_Witness ==
  \E s \in Steps :
    /\ HasResult(s)
    /\ results[s].status = "skipped"
    /\ \E d \in FailedOrSkippedDeps(s) :
         d \notin dependsOn[s] /\ results[d].status = "skipped"

\* C3: a failed or skipped step never ends the run and touches only its
\* transitive dependents: the run ends early by cancellation only, and a
\* step recorded without having been dispatched was skipped by its own
\* condition, failed on its own exception, or has a failed or skipped
\* transitive dependency that its reason names.
C3_FailureIsolation ==
  /\ pc = "completed" => DOMAIN results = Steps
  /\ pc = "cancelled" => isCancelled
  /\ \A s \in DOMAIN results \ dispatched :
       \/ results[s].status = "skipped" /\ results[s].error = ConditionReason(s)
       \/ results[s].status = "failed" /\ s \in DOMAIN raised
       \/ /\ results[s].status = "skipped"
          /\ \E d \in FailedOrSkippedDeps(s) :
               results[s].error = DependencyReason(results[d].status, d)

\* fan-out root -> {left, right}: left failed, right was dispatched and completed
C3_Witness ==
  \E root \in Steps, left \in Steps, right \in Steps :
    /\ Independent(left, right)
    /\ root \in dependsOn[left] /\ root \in dependsOn[right]
    /\ HasResult(left) /\ results[left].status = "failed"
    /\ HasResult(right) /\ results[right].status = "completed"
    /\ right \in dispatched
    /\ pc = "completed"

\* C4: execute() never rejects because of a step: whatever a render, a
\* dispatch or the substrate throws, the run goes on and the step is recorded
\* failed with the exception's message.
C4_NeverRejects ==
  /\ pc # "rejected"
  /\ \A s \in DOMAIN raised :
       /\ HasResult(s)
       /\ results[s].status = "failed"
       /\ results[s].error = raised[s]

\* the run returned its map although an activity and a dispatch threw
C4_Witness ==
  /\ pc = "completed"
  /\ \E s \in DOMAIN raised, t \in DOMAIN raised :
       /\ raised[s] = ThrownMessage("activity failed")
       /\ raised[t] = ThrownMessage("dispatch failed")

\* C5: each step id is written exactly once per run: on no path is
\* results[id] written a second time.
C5_WrittenOnce == \A s \in Steps : saveCount[s] <= 1

\* C6: once a StepResult is in the result map, its status, output and error
\* never change, whatever cancel or step signals arrive afterwards.
C6_ResultsNeverChange ==
  [][\A s \in DOMAIN results : s \in DOMAIN results' /\ results'[s] = results[s]]_vars

\* a signal step completed with one payload; later another payload for the
\* same id and a cancel arrived
C6_Witness ==
  \E s \in DOMAIN results :
    /\ results[s].output.kind = "payload"
    /\ s \in DOMAIN signalResults
    /\ signalResults[s] # results[s].output.v
    /\ isCancelled

\* C7: at every point of a run the ids holding a result are a prefix of the
\* execution order.
C7_ResultsArePrefix ==
  \E k \in 0..Len(order) : DOMAIN results = {order[i] : i \in 1..k}

\* some but not all steps hold a result while a step is in flight
C7_Witness ==
  /\ pc = "await"
  /\ results # <<>>
  /\ Cardinality(DOMAIN results) + Cardinality(inflight) < Len(order)

C9_IndependentStepsInParallel ==
  \A f \in inflight : \A t \in Steps :
    (/\ Independent(f.id, t)
     /\ \A d \in TransitiveDependencies(t) : HasResult(d))
    => (HasResult(t) \/ t \in InFlightIds)

\* C10: if the flag is set when the loop reaches a step, the loop stops: no
\* result is written, and that step and every later one are absent from the
\* returned map.
C10_CancelStopsLoop ==
  /\ [](pc = "cancelled" =>
         /\ idx <= Len(order)
         /\ \A i \in idx..Len(order) : order[i] \notin DOMAIN results)
  /\ [][(pc = "loop" /\ idx <= Len(order) /\ isCancelled) =>
          (pc' = "cancelled" /\ results' = results)]_vars

\* the loop broke after a result was recorded, leaving later steps absent
C10_Witness ==
  /\ pc = "cancelled"
  /\ results # <<>>
  /\ DOMAIN results # Steps

\* C11: a cancel that arrives while an activity or code step is in flight
\* does not interrupt it: the step stays in flight until the substrate
\* settles it, its result is then recorded from the invocation's own outcome
\* (completed with the handler's value, or failed with the caught message),
\* and once the loop has stopped only the steps after it have no result.
C11_CancelDoesNotInterrupt ==
  /\ [][\A f \in inflight :
          (f.type # "signal" /\ isCancelled) =>
            \/ f \in inflight' /\ results' = results
            \/ /\ f.id \in DOMAIN results' /\ f.id \notin DOMAIN results
               /\ \/ /\ results'[f.id].status = "completed"
                     /\ results'[f.id].output = HandlerValue(f.id)
                  \/ /\ results'[f.id].status = "failed"
                     /\ results'[f.id].error = raised'[f.id]
               /\ \A s \in DOMAIN results : results'[s] = results[s]]_vars
  /\ [](pc = "cancelled" =>
          \A i \in 1..Len(order) : HasResult(order[i]) <=> i < idx)

\* the loop stopped after a handler step that was in flight under the flag
\* and completed with its own value
C11_Witness ==
  /\ pc = "cancelled"
  /\ idx > 1
  /\ idx <= Len(order)
  /\ results[order[idx - 1]].output = HandlerValue(order[idx - 1])

\* positions of the log at which a payload for s arrived / a cancel arrived
DeliveriesTo(s) ==
  {i \in 1..Len(signalLog) :
     signalLog[i].sig = "deliver" /\ signalLog[i].stepId = s}
Cancels == {i \in 1..Len(signalLog) : signalLog[i].sig = "cancel"}
Earliest(S) == CHOOSE i \in S : \A j \in S : i <= j

\* the first payload delivered for s
FirstDelivered(s) == signalLog[Earliest(DeliveriesTo(s))].payload

\* the payloads delivered for s before s had a result and before a cancel
DeliveredBeforeCancel(s) ==
  {signalLog[i].payload :
     i \in {j \in DeliveriesTo(s) :
              s \notin signalLog[j].recorded /\ \E c \in Cancels : j < c}}

\* a cancel found s waiting and no payload for s had arrived before it
CancelledBeforeDelivery(s) ==
  \E c \in Cancels :
    s \in signalLog[c].waiting /\ \A j \in DeliveriesTo(s) : c < j

\* s went through executeSignalStep
ResolvedBySignal(s) ==
  /\ HasResult(s)
  /\ results[s].output.kind = "payload" \/ results[s].error = CancelledReason

\* C12: a signal step resolves completed with the exact payload delivered
\* for its id whenever that delivery precedes the cancel.
C12_DeliveryBeforeCancelCompletes ==
  \A s \in Steps :
    ResolvedBySignal(s) =>
      \A p \in DeliveredBeforeCancel(s) :
        /\ results[s].status = "completed"
        /\ results[s].output = PayloadValue(p)

\* C13 as stated: a signal step that was waiting when the cancel arrived,
\* with no payload for its id delivered before the cancel, resolves skipped
\* with the fixed reason, whatever arrives afterwards.
C13_CancelBeforeDeliverySkips ==
  \A s \in Steps :
    (CancelledBeforeDelivery(s) /\ HasResult(s)) =>
      /\ results[s].status = "skipped"
      /\ results[s].error = CancelledReason

\* C13 amended: a waiting signal step that the cancel found without a
\* payload resolves skipped with the fixed reason if still no payload for
\* its id has arrived when the wait resumes; a payload that arrives between
\* the cancel and the resumption completes the step with that payload.
C13_CancelWithoutPayloadSkips ==
  [][\A s \in Steps :
       (CancelledBeforeDelivery(s) /\ s \in Waiting /\ s \in DOMAIN results') =>
         IF s \in DOMAIN signalResults
         THEN /\ results'[s].status = "completed"
              /\ results'[s].output = PayloadValue(signalResults[s])
         ELSE /\ results'[s].status = "skipped"
              /\ results'[s].error = CancelledReason]_vars

\* a wait that the cancel found without a payload has ended in the skip
C13_Witness ==
  \E s \in Steps :
    /\ CancelledBeforeDelivery(s)
    /\ HasResult(s)
    /\ results[s].status = "skipped"
    /\ results[s].error = CancelledReason

\* C14: when several payloads are delivered for one id, the signal step's
\* output is the first payload delivered for that id.
C14_FirstDeliveryConsumed ==
  \A s \in Steps :
    (HasResult(s) /\ results[s].output.kind = "payload") =>
      results[s].output = PayloadValue(FirstDelivered(s))

\* C15: the map execute() returns is the result map itself: when the run
\* ended Completed it holds a terminal result for every step id, and when
\* it ended Cancelled it holds exactly the results recorded before the
\* break, those of the ids the loop had passed.
C15_ReturnedMap ==
  /\ pc = "completed" =>
       /\ DOMAIN results = Steps
       /\ \A s \in Steps : results[s].id = s /\ results[s].status \in Terminal
  /\ pc = "cancelled" =>
       /\ DOMAIN results = {order[i] : i \in 1..(idx - 1)}
       /\ DOMAIN results # Steps
       /\ \A s \in DOMAIN results : results[s].status \in Terminal

\* a Completed run whose map holds a failed and a skipped result
C15_Witness ==
  /\ pc = "completed"
  /\ \E s \in Steps, t \in Steps :
       results[s].status = "failed" /\ results[t].status = "skipped"

\* C16: in a chain a <- b <- c, if a fails then b and c are both skipped and
\* each reason names a with status failed: c's reason names a, not b.
C16_ChainSkipNamesRoot ==
  \A a \in Steps, b \in Steps, c \in Steps :
    (/\ dependsOn[a] = {} /\ dependsOn[b] = {a} /\ dependsOn[c] = {b}
     /\ HasResult(a) /\ results[a].status = "failed") =>
      \A s \in {b, c} :
        HasResult(s) =>
          /\ results[s].status = "skipped"
          /\ results[s].error = DependencyReason("failed", a)

\* the chain has run to its end after a failed
C16_Witness ==
  \E a \in Steps, b \in Steps, c \in Steps :
    /\ dependsOn[a] = {} /\ dependsOn[b] = {a} /\ dependsOn[c] = {b}
    /\ HasResult(a) /\ results[a].status = "failed"
    /\ HasResult(b) /\ results[b].status = "skipped"
    /\ HasResult(c) /\ results[c].error = DependencyReason("failed", a)

\* C17: a step whose declared condition evaluates false against the context
\* built from the results recorded so far is recorded skipped with a reason
\* that contains the text of its condition, and nothing else is done for
\* it: no input is rendered, no handler or script is invoked, no signal wait
\* is started.
C17_FalseConditionSkips ==
  \A s \in conditionFalse :
    /\ HasResult(s)
    /\ results[s].status = "skipped"
    /\ results[s].error = ConditionReason(s)
    /\ s \notin inputRendered
    /\ s \notin dispatched
    /\ s \notin InFlightIds

\* a run has ended with a step skipped on its condition
C17_Witness ==
  /\ pc = "completed"
  /\ \E s \in conditionFalse : results[s].error = ConditionReason(s)

IsBlank(text) == \A i \in 1..Len(text) : text[i] \in Whitespace

\* text is one of '', 'false', '0' with whitespace around it
FalsyText(text) ==
  \E i \in 0..Len(text), j \in 0..Len(text) :
    /\ i <= j
    /\ IsBlank(SubSeq(text, 1, i))
    /\ IsBlank(SubSeq(text, j + 1, Len(text)))
    /\ SubSeq(text, i + 1, j) \in {<<>>, <<"f", "a", "l", "s", "e">>, <<"0">>}

Position(s) == CHOOSE i \in 1..Len(order) : order[i] = s

\* the steps no other step depends on
StartingPoints == {s \in Steps : incomingEdges(s) = {}}

\* C19: for every acyclic step list the execution order holds each step id
\* exactly once and places every step after all of its direct and
\* transitive dependencies; a further call on the same definition returns
\* the same order.
C19_TopologicalOrder ==
  pc = "loop" =>
    /\ Len(order) = NumSteps
    /\ \A s \in Steps : Cardinality({i \in 1..Len(order) : order[i] = s}) = 1
    /\ \A s \in Steps : \A d \in TransitiveDependencies(s) :
         Position(d) < Position(s)
    /\ getExecutionOrder = order

\* an order that differs from the declaration order, for a definition with
\* a dependency that is transitive only
C19_Witness ==
  /\ pc = "loop"
  /\ order # SortedSeq(Steps)
  /\ \E s \in Steps : TransitiveDependencies(s) # dependsOn[s]

\* C20 as stated: at each position of the order, among the steps that are
\* not placed yet and whose dependencies have all been placed, the one
\* declared earliest comes next.
C20_EarliestDeclaredReadyNext ==
  pc = "loop" =>
    \A i \in 1..Len(order) :
      LET placed == {order[j] : j \in 1..(i - 1)}
          ready == {s \in Steps \ placed : dependsOn[s] \subseteq placed}
      IN \A s \in ready : order[i] <= s

\* C20 amended: declaration order decides among the steps that no other
\* step depends on: of two such steps the one declared earlier comes first.
\* A step that others depend on comes after the last such step declared
\* before the first one that needs it, and before that one, even where an
\* independent step declared earlier is ready.
C20_StartingPointsInDeclarationOrder ==
  pc = "loop" =>
    /\ \A s \in StartingPoints, t \in StartingPoints :
         s < t => Position(s) < Position(t)
    /\ \A d \in Steps \ StartingPoints :
         LET needing == {t \in StartingPoints : d \in TransitiveDependencies(t)}
             first == CHOOSE t \in needing : \A u \in needing : t <= u
         IN /\ needing # {}
            /\ Position(d) < Position(first)
            /\ \A s \in StartingPoints : s < first => Position(s) < Position(d)

\* a step with a dependent is placed ahead of an independent step that was
\* declared before it
C20_Witness ==
  /\ pc = "loop"
  /\ \E d \in Steps \ StartingPoints, s \in StartingPoints :
       s < d /\ dependsOn[d] = {} /\ Position(d) < Position(s)

\* no step has been touched: nothing evaluated, dispatched or recorded
NothingExecuted ==
  /\ results = <<>>
  /\ contextResults = <<>>
  /\ inflight = {}
  /\ condEvaluated = {}
  /\ inputRendered = {}
  /\ dispatched = {}
  /\ \A s \in Steps : saveCount[s] = 0

\* C21: a step list with a duplicate id or a dependsOn entry that names an
\* undeclared id makes the constructor throw, and a dependency cycle (a
\* self-dependency included) makes execute() throw before its loop: for
\* such a definition no handler is invoked and no StepResult is recorded.
C21_DefectiveDefinitionRaises ==
  /\ [][(pc = "new" /\ (HasDuplicateId(argument) \/ HasUndefinedDependency(argument)))
          => (pc' = "constructorError" /\ returned' # <<>>)]_vars
  /\ [](pc \in {"new", "constructorError"} => NothingExecuted)
  /\ []((pc # "new" /\ argument = <<>> /\ \E s \in Steps : s \in TransitiveDependencies(s))
          => (pc \in {"created", "graphError"} /\ NothingExecuted))

\* execute() has thrown for a step that depends on itself
C21_Witness ==
  /\ pc = "graphError"
  /\ \E s \in Steps : s \in dependsOn[s]
  /\ NothingExecuted

\* C22: on an acyclic graph getDependencies(id) returns exactly the direct
\* and transitive dependencies of id and getDependents(id) exactly the
\* direct and transitive dependents of id; for an id that is not in the
\* graph both return the empty set.
C22_TransitiveClosures ==
  returned # <<>> =>
    returned[1] =
      IF argument.stepId \notin Steps THEN {}
      ELSE IF argument.method = "getDependencies"
      THEN TransitiveDependencies(argument.stepId)
      ELSE {t \in Steps : argument.stepId \in TransitiveDependencies(t)}

\* getDependents has returned a step that depends on the id only through
\* another step
C22_Witness ==
  /\ returned # <<>>
  /\ argument.method = "getDependents"
  /\ argument.stepId \in Steps
  /\ \E t \in returned[1] : argument.stepId \notin dependsOn[t]

\* C23: every recorded StepResult has status completed, failed or skipped,
\* carries an error or reason message if and only if its status is failed
\* or skipped, and carries an output only if its status is completed.
C23_ResultShape ==
  \A s \in DOMAIN results :
    /\ results[s].status \in Terminal
    /\ results[s].error # NoError <=> results[s].status \in {"failed", "skipped"}
    /\ results[s].output # Undefined => results[s].status = "completed"

\* one run has recorded a result of each status, the completed one with an
\* output
C23_Witness ==
  \E a \in DOMAIN results, b \in DOMAIN results, c \in DOMAIN results :
    /\ results[a].status = "completed" /\ results[a].output # Undefined
    /\ results[b].status = "failed"
    /\ results[c].status = "skipped"

\* C24: a StepResult produced by dispatching a step carries the attempt
\* count of the invocation, 1 when the invocation path reports none: no
\* dispatched step is recorded with attempt count 0.
C24_DispatchedAttemptCounted ==
  \A s \in dispatched :
    HasResult(s) => results[s].attempt >= 1

\* C25: the retry policy handed to the substrate has maximumAttempts equal
\* to retry.maximumAttempts when that is present, whatever count is,
\* otherwise retry.count + 1 when count is present, and always a backoff
\* ceiling of 5 minutes.
C25_RetryPolicy ==
  (returned # <<>> /\ ~returned[1].threw) =>
    /\ argument.retry.maximumAttempts.present =>
         returned[1].retry.maximumAttempts = argument.retry.maximumAttempts.v
    /\ (~argument.retry.maximumAttempts.present /\ argument.retry.count.present) =>
         returned[1].retry.maximumAttempts = argument.retry.count.v + 1
    /\ returned[1].retry.maximumInterval = 5 * 60 * 1000

\* both fields were given, with count + 1 different from maximumAttempts
C25_Witness ==
  /\ returned # <<>>
  /\ ~returned[1].threw
  /\ argument.retry.maximumAttempts.present
  /\ argument.retry.count.present
  /\ argument.retry.count.v + 1 # argument.retry.maximumAttempts.v
  /\ returned[1].retry.maximumAttempts = argument.retry.maximumAttempts.v

AllRejected(outcomes) == \A i \in 1..Len(outcomes) : outcomes[i] = "rejected"

IsCall(k, op) == k \in 1..Len(argument) /\ argument[k].op = op

\* the position of the last clearRegistry before call k, 0 when there is none
LastClear(k) ==
  LET clears == {i \in 1..(k - 1) : IsCall(i, "clearRegistry")}
  IN IF clears = {} THEN 0 ELSE CHOOSE m \in clears : \A i \in clears : i <= m

\* the registerNode calls for `name` that call k can see
Registrations(k, name) ==
  {i \in (LastClear(k) + 1)..(k - 1) :
     IsCall(i, "registerNode") /\ argument[i].name = name}

Major(i) == parseVersion(argument[i].version)

\* the node of the first registerNode call for {name, v} that call k can see
FirstRegistered(k, name, v) ==
  LET calls == {i \in Registrations(k, name) : Major(i) = v}
      first == CHOOSE i \in calls : \A j \in calls : i <= j
  IN IF calls = {} THEN NoNode
     ELSE NodeDefinition(first, name, argument[first].version)

AlreadyRegistered(k) ==
  /\ IsCall(k, "registerNode")
  /\ \E i \in Registrations(k, argument[k].name) : Major(i) = Major(k)

LastCallAlreadyRegistered == AlreadyRegistered(Len(argument))

HighestMajor(k, name) ==
  MathMax({Major(i) : i \in Registrations(k, name)})

\* C27: a registerNode call for a {name, major version} pair that an earlier
\* call (since the last clear) registered throws and leaves the registry as
\* it was, and every lookup that returns a node returns the node of the first
\* registration of that node's {name, major version} pair.
C27_DuplicateRegistrationRejected ==
  /\ [](\A k \in 1..Len(argument) : AlreadyRegistered(k) => returned[k].threw)
  /\ [][(Len(argument') = Len(argument) + 1 /\ LastCallAlreadyRegistered')
          => nodeRegistry' = nodeRegistry]_vars
  /\ [](\A k \in 1..Len(argument) :
          (IsCall(k, "getNode") /\ returned[k].node # NoNode)
            => returned[k].node =
                 FirstRegistered(k, argument[k].name,
                                 parseVersion(returned[k].node.version)))

\* a second registration of a pair was rejected and a later lookup of the
\* pair returned the node registered first
C27_Witness ==
  \E i, j, k \in 1..Len(argument) :
    /\ i < j /\ j < k
    /\ IsCall(i, "registerNode") /\ ~returned[i].threw
    /\ AlreadyRegistered(j) /\ argument[j].name = argument[i].name
    /\ Major(j) = Major(i) /\ argument[j].version # argument[i].version
    /\ returned[j].threw
    /\ IsCall(k, "getNode") /\ argument[k].name = argument[i].name
    /\ argument[k].wanted = Present(Major(i))
    /\ returned[k].node.id = i

\* C28: getNode(name) returns the node registered under the highest major
\* version of the name, which is the node createNodeActivities exposes under
\* the bare name; getNode(name, v) returns the node registered under major
\* version v, and undefined when there is none.
C28_LookupReturnsLatestOrExact ==
  /\ \A k \in 1..Len(argument) :
       IsCall(k, "getNode") =>
         LET name == argument[k].name
             wanted == argument[k].wanted
         IN returned[k].node =
              IF wanted.present THEN FirstRegistered(k, name, wanted.v)
              ELSE IF Registrations(k, name) = {} THEN NoNode
              ELSE FirstRegistered(k, name, HighestMajor(k, name))
  /\ \A name \in NodeNames :
       IF <<name>> \in DOMAIN createNodeActivities(nodeRegistry)
       THEN createNodeActivities(nodeRegistry)[<<name>>]
              = getNode(nodeRegistry, name, Absent)
       ELSE getNode(nodeRegistry, name, Absent) = NoNode

\* the highest major version was registered first, a lower one after it, and
\* the lookup without a version returned the first node
C28_Witness ==
  \E i, j, k \in 1..Len(argument) :
    /\ i < j /\ j < k
    /\ IsCall(i, "registerNode") /\ IsCall(j, "registerNode")
    /\ argument[i].name = argument[j].name
    /\ Major(j) < Major(i)
    /\ IsCall(k, "getNode") /\ argument[k].name = argument[i].name
    /\ ~argument[k].wanted.present
    /\ returned[k].node.id = i

\* ---- the activity wrapper ----
WrapperCalled == returned # <<>> /\ "executeCalled" \in DOMAIN returned[1]

ValidationFails == argument.node.inputSchema /\ ~argument.safeParseSuccess

\* C29: when the node declares an input schema and the raw input fails it,
\* execute is not called and the call throws a NodeExecutionError with code
\* VALIDATION_ERROR and the node's name; when the input passes, execute is
\* called with the parsed input.
C29_ValidationBeforeExecute ==
  (WrapperCalled /\ argument.node.inputSchema) =>
    IF argument.safeParseSuccess
    THEN returned[1].executeCalled /\ returned[1].passed = "result.data"
    ELSE /\ ~returned[1].executeCalled
         /\ returned[1].threw
         /\ returned[1].error =
              NodeExecutionError(argument.node.name, "VALIDATION_ERROR")

\* the input failed the schema of a node whose execute would have resolved
C29_Witness ==
  /\ WrapperCalled
  /\ ValidationFails
  /\ argument.execute.kind = "resolves"
  /\ returned[1].threw
  /\ returned[1].error.code = "VALIDATION_ERROR"

TimerWon ==
  \/ codeExecution.events # <<>> /\ Head(codeExecution.events) = "timedOut"
  \/ codeExecution.message = FailedMessage(VmTimedOutMessage(argument.timeout))

ScriptThrewFirst ==
  \/ codeExecution.events # <<>> /\ Head(codeExecution.events) = "rejected"
  \/ codeExecution.message = FailedMessage(ScriptMessage)

BoundaryThrew == returned # <<>> /\ returned[1].threw

\* C31 as stated: when the timeout comes first the error that leaves the
\* boundary is of the timeout kind (code TIMEOUT_ERROR) and names the
\* configured duration, and when the script throws the error is of the
\* execution kind (code EXECUTION_ERROR).
C31_TimeoutKindError ==
  BoundaryThrew =>
    /\ TimerWon =>
         /\ returned[1].error.code = "TIMEOUT_ERROR"
         /\ codeExecution.message.timeout = argument.timeout
    /\ ScriptThrewFirst => returned[1].error.code = "EXECUTION_ERROR"

ExpectedOutcome(first) == IF first = "resolved" THEN "returned" ELSE "threw"

ExpectedMessage(first) ==
  IF first = "resolved" THEN NoMessage
  ELSE IF first = "rejected" THEN FailedMessage(ScriptMessage)
  ELSE FailedMessage(TimedOutMessage(argument.timeout))

\* C32: the outcome of execute is the one of the first of {script returns,
\* script throws, timer fires}; execute produces at most one outcome, and no
\* later event changes the outcome, its message or what the wrapper returned.
C32_FirstEventDecidesOnce ==
  /\ [](/\ Len(codeExecution.outcomes) <= 1
        /\ (codeExecution.outcomes # <<>> /\ codeExecution.events # <<>>) =>
             /\ codeExecution.outcomes[1] = ExpectedOutcome(Head(codeExecution.events))
             /\ codeExecution.message = ExpectedMessage(Head(codeExecution.events))
        /\ (returned # <<>>) =>
             returned[1].threw = (codeExecution.outcomes = <<"threw">>))
  /\ [][/\ codeExecution.outcomes # <<>> =>
             /\ codeExecution'.outcomes = codeExecution.outcomes
             /\ codeExecution'.message = codeExecution.message
        /\ returned # <<>> => returned' = returned]_vars

\* the timer fired first, execute threw, and the script returned afterwards
C32_Witness ==
  /\ codeExecution.events = <<"timedOut", "resolved">>
  /\ codeExecution.outcomes = <<"threw">>
  /\ BoundaryThrew

\* ---- the template context ----
\* the loop passes the dependency check of the step it is at and builds the
\* template context for its condition and its input
ReachesCondition ==
  /\ pc = "loop"
  /\ idx \in 1..Len(order)
  /\ order[idx] \notin condEvaluated
  /\ order[idx] \in condEvaluated'

\* C33: the template context built for a step holds an entry for exactly the
\* steps recorded in the result map at that moment, which are the steps
\* before it in the execution order; each entry exposes the output of that
\* step's result and nothing else; no later step has an entry.
C33_ContextHoldsEarlierResults ==
  [][ReachesCondition =>
       LET templateContext == buildTemplateContext(contextResults)
       IN /\ DOMAIN templateContext = DOMAIN results
          /\ DOMAIN templateContext = {order[j] : j \in 1..(idx - 1)}
          /\ \A id \in DOMAIN templateContext :
               templateContext[id] = [result |-> results[id].output]]_vars

\* a step was reached behind a failed step and a completed step, neither of
\* which it depends on, and its condition was evaluated
C33_Witness ==
  /\ Len(order) = NumSteps
  /\ order[NumSteps] \in condEvaluated
  /\ getDependencies(order[NumSteps]) = <<>>
  /\ \E s, t \in DOMAIN results :
       /\ results[s].status = "failed"
       /\ results[t].status = "completed"
       /\ results[t].output # Undefined

\* ---- what the signal handlers write ----
\* C34: a step that changes the signal inbox changes nothing else, a step
\* that sets the cancellation flag changes nothing else; an id that no step
\* declares never gets a result, and a result that takes a payload takes the
\* one held for its own id, as the outcome of a signal wait or of a step
\* that did not suspend: an invocation in flight never ends with a payload.
C34_HandlersWriteOnlyTheirField ==
  /\ [][signalResults' # signalResults =>
          UNCHANGED <<dependsOn, pc, order, idx, results, contextResults,
                      isCancelled, inflight, saveCount, condEvaluated,
                      inputRendered, dispatched, raised, conditionFalse>>]_vars
  /\ [][isCancelled' # isCancelled =>
          UNCHANGED <<dependsOn, pc, order, idx, results, contextResults,
                      signalResults, inflight, saveCount, condEvaluated,
                      inputRendered, dispatched, raised, conditionFalse>>]_vars
  /\ [](DOMAIN results \subseteq Steps)
  /\ [][\A s \in DOMAIN results' \ DOMAIN results :
          results'[s].output.kind = "payload" =>
            /\ s \in DOMAIN signalResults
            /\ results'[s].output = PayloadValue(signalResults[s])
            /\ \A f \in inflight : f.id = s => f.type = "signal"]_vars

\* the run ended with a payload held for an id no step declares and with a
\* payload held for a step that completed with its handler's value
C34_Witness ==
  /\ pc = "completed"
  /\ UndeclaredId \in DOMAIN signalResults
  /\ \E s \in DOMAIN signalResults \cap DOMAIN results :
       results[s].output = HandlerValue(s)

\* ---- the end of a signal wait ----
\* C35: a signal wait that ends while a payload is held for its id records
\* the step completed with the payload held at that moment, whether or not
\* the flag is set and whichever of the two came first; a wait that ends in
\* the skip ends so with the flag set and no payload held for the id.
C35_PayloadWinsOverFlag ==
  [][\A f \in inflight :
       (f.type = "signal" /\ f.id \in DOMAIN results') =>
         /\ f.id \in DOMAIN signalResults =>
              /\ results'[f.id].status = "completed"
              /\ results'[f.id].output = PayloadValue(signalResults[f.id])
         /\ results'[f.id].status = "skipped" =>
              /\ isCancelled
              /\ f.id \notin DOMAIN signalResults
              /\ results'[f.id].error = CancelledReason
         /\ results'[f.id].status # "failed"]_vars

\* the cancel came while the step waited, the payload came after it, and the
\* step completed with the payload
C35_Witness ==
  \E s \in Steps :
    /\ CancelledBeforeDelivery(s)
    /\ DeliveriesTo(s) # {}
    /\ HasResult(s)
    /\ results[s].status = "completed"
    /\ results[s].output.kind = "payload"

\* ---- payloads that arrive early ----
\* positions of the log at which a payload for s arrived before the loop
\* reached s: s had no result and was not waiting
DeliveredBeforeReached(s) ==
  {i \in DeliveriesTo(s) :
     s \notin signalLog[i].recorded /\ s \notin signalLog[i].waiting}

\* C36: a payload delivered for a signal step before the loop reaches it is
\* kept, and when the step goes through its signal wait it completes with
\* that payload and is never seen waiting.
C36_EarlyPayloadCompletes ==
  \A s \in Steps :
    \A i \in DeliveredBeforeReached(s) :
      /\ s \in DOMAIN signalResults
      /\ s \notin Waiting
      /\ ResolvedBySignal(s) =>
           /\ results[s].status = "completed"
           /\ results[s].output = PayloadValue(signalLog[i].payload)

\* ---- skipped before the signal wait ----
\* the loop is at a step and this step of the run is the loop taking it up
TakesUpStep ==
  /\ pc = "loop"
  /\ idx \in 1..Len(order)
  /\ order[idx] \in (DOMAIN results' \cup {f.id : f \in inflight'})
                      \ (DOMAIN results \cup InFlightIds)

\* C37: a step, of signal kind or not, that has a failed or skipped
\* dependency or whose condition is false when the loop takes it up is
\* recorded skipped in that same step of the run and the loop is at the next
\* step: nothing is put in flight, no payload and no cancel is needed; no
\* step that waits has a failed or skipped dependency or a false condition.
C37_SkippedStepNeverWaits ==
  /\ [][(TakesUpStep /\ (FailedOrSkippedDeps(order[idx]) # {}
                           \/ order[idx] \in conditionFalse')) =>
          /\ inflight' = inflight
          /\ order[idx] \in DOMAIN results'
          /\ results'[order[idx]].status = "skipped"
          /\ pc' = "loop"
          /\ idx' = idx + 1]_vars
  /\ [](\A s \in InFlightIds :
          FailedOrSkippedDeps(s) = {} /\ s \notin conditionFalse)

\* the run ended without any payload and without a cancel, one step skipped
\* on a dependency and one on its condition
C37_Witness ==
  /\ pc = "completed"
  /\ ~isCancelled
  /\ signalResults = <<>>
  /\ \E s \in DOMAIN results, t \in DOMAIN results :
       /\ results[s].status = "skipped" /\ FailedOrSkippedDeps(s) # {}
       /\ results[t].status = "skipped" /\ t \in conditionFalse

\* ---- termination ----
\* the loop is at a step and this step of the run records a result for a
\* step or puts one in flight
LoopBodyRuns ==
  /\ pc = "loop"
  /\ saveCount' # saveCount \/ inflight' # inflight

\* C38: when every invocation settles and every waiting signal step gets a
\* payload or a cancel, execute() returns its result map, after the last
\* step or after the break; the loop never takes up a step that has a
\* result or is in flight, and goes through the execution order forwards.
C38_ExecuteTerminates ==
  /\ <>(pc \in {"completed", "cancelled"})
  /\ [][LoopBodyRuns =>
          /\ idx \in 1..Len(order)
          /\ order[idx] \notin DOMAIN results
          /\ order[idx] \notin InFlightIds]_vars
  /\ [][idx' \in {idx, idx + 1}]_vars

\* the run returned after a signal step had waited and an activity had been
\* in flight
C38_Witness ==
  /\ pc = "completed"
  /\ \E s \in DOMAIN results, t \in DOMAIN results :
       /\ results[s].output.kind = "payload"
       /\ results[t].output.kind = "handler"

\* ---- exceptions before the invocation ----
RaisedBeforeInvocation ==
  {ThrownMessage("condition render failed"), ThrownMessage("input render failed"),
   ThrownMessage("dispatch failed")}

\* the steps on which the condition, the input render or the preparation of
\* the invocation threw
ThrewBeforeInvocation ==
  {s \in DOMAIN raised : raised[s] \in RaisedBeforeInvocation}

\* C39: a step on which the evaluation of the condition, the rendering of
\* the input or the preparation of the invocation (missing script, missing
\* handler name, a duration that does not parse) throws is recorded failed
\* with the message in that same step of the run; nothing was handed to the
\* substrate for it; no other result changes, and the loop is at the next
\* step.
C39_EarlyExceptionFailsStepOnly ==
  /\ [](\A s \in ThrewBeforeInvocation :
          /\ HasResult(s)
          /\ results[s].status = "failed"
          /\ results[s].error = raised[s]
          /\ s \notin dispatched
          /\ s \notin InFlightIds)
  /\ [][\A s \in ThrewBeforeInvocation' \ ThrewBeforeInvocation :
          /\ s = order[idx]
          /\ s \notin InFlightIds
          /\ inflight' = inflight
          /\ \A t \in DOMAIN results : results'[t] = results[t]
          /\ DOMAIN results' = DOMAIN results \cup {s}
          /\ pc' = "loop"
          /\ idx' = idx + 1]_vars

\* the run completed after the condition threw on one step, the input
\* render on another and the preparation of the invocation on a third
C39_Witness ==
  /\ pc = "completed"
  /\ {raised[s] : s \in ThrewBeforeInvocation} = RaisedBeforeInvocation

\* ---- the legacy loop without a pass ----
\* C40: in the legacy retry loop a step is recorded completed only when one
\* of the invocations of its handler returned.
C40_CompletedOnlyAfterSuccess ==
  (retryLoop.pc = "saved" /\ retryLoop.stepResult.status = "completed") =>
    \E i \in 1..Len(retryLoop.outcomes) : retryLoop.outcomes[i] = "resolved"

====
